---- MODULE Spec2Model ----
(***************************************************************************)
(* A model of the webmidi repository:                                      *)
(*   - InputChannel (src/unnamed/part_000): the per-channel parser that     *)
(*     turns one decoded MIDI message into emitted events;                 *)
(*   - EventEmitter / Listener (src/typescript/EventEmitter.ts): the        *)
(*     listener registry and its emit loop.                                *)
(* Floats are kept as exact fractions (numerator, denominator).            *)
(***************************************************************************)
EXTENDS Integers, Sequences, FiniteSets, TLC

VARIABLES
    \* ---- InputChannel ----
    number,              \* InputChannel._number (1..16)
    octaveOffset,        \* InputChannel._octaveOffset
    inputOctaveOffset,   \* Input.octaveOffset of the owning input
    webMidiOctaveOffset, \* WebMidi._octaveOffset
    phase,               \* "idle": waiting for a message; "handled": handler returned
    message,             \* the message handled last (NoMessage when idle)
    emitted,             \* the emit() calls made while handling it, in order
    ccTrail,             \* history: the latest control changes handled, as far as
                         \* they spell the start of a parameter-number scenario
    outcome,             \* history: the call made last on the channel or on an
                         \* octaveOffset property, and the error it threw, if any
    \* ---- EventEmitter ----
    eventMap,            \* EventEmitter.eventMap: key -> sequence of listener ids
    listeners,           \* the Listener objects created so far, by id
    eventsSuspended,     \* EventEmitter.eventsSuspended
    last,                \* history: the emit() just performed and what it invoked
    waits,               \* the waitFor() calls made so far: listener, promise, timeout
    \* ---- WebMidi ----
    interface,           \* WebMidi.interface: "null" or "MIDIAccess"
    validation,          \* WebMidi.validation
    reported,            \* the ports the MIDIAccess object reports (interface.inputs/outputs)
    inputs,              \* WebMidi._inputs: the Input objects, each named by its port
    outputs,             \* WebMidi._outputs
    disconnectedInputs,  \* WebMidi._disconnectedInputs
    disconnectedOutputs, \* WebMidi._disconnectedOutputs
    portStatus,          \* per port, how far open() or destroy() of its object has come
    call,                \* the enable() or disable() call in progress or just ended
    log,                 \* history: the steps of that call, in order
    portOctaveOffset,    \* per port, the octaveOffset of the Input object made for it last
    made                 \* history: the ports the latest list update made a new object for

chanVars == <<number, octaveOffset, inputOctaveOffset, webMidiOctaveOffset,
              phase, message, emitted, ccTrail, outcome>>
emitterVars == <<eventMap, listeners, eventsSuspended, last, waits>>
objectVars == <<portOctaveOffset, made>>
midiVars == <<interface, validation, reported, inputs, outputs, disconnectedInputs,
              disconnectedOutputs, portStatus, call, log, objectVars>>
vars == <<chanVars, emitterVars, midiVars>>

----------------------------------------------------------------------------
(* Bounds of the model *)

\* Channels modelled: the channel's number is one of 1..NumChannels.
NumChannels == 2

(* JavaScript's undefined, for a data byte a message does not have and for an
   option that is not given. *)
Undefined == -999

Min(a, b) == IF a < b THEN a ELSE b
Max(a, b) == IF a > b THEN a ELSE b

\* Values of a data byte tried for the second data byte and for single-byte messages.
SampleValues == {0, 3, 12, 64, 127}
\* Note numbers tried for note messages.
SampleNotes == {0, 60, 127}
\* Every controller number is tried.
ControllerNumbers == 0 .. 127

----------------------------------------------------------------------------
(* Values carried by events *)

FloatValue(n, d) == [kind |-> "float", n |-> n, d |-> d, b |-> FALSE]
IntValue(i) == [kind |-> "int", n |-> i, d |-> 1, b |-> FALSE]
BoolValue(x) == [kind |-> "bool", n |-> 0, d |-> 1, b |-> x]
NoValue == [kind |-> "undefined", n |-> 0, d |-> 1, b |-> FALSE]

\* Utilities.toNormalized / from7bitToFloat: the value over 127, kept within 0..1.
toNormalized(value) == FloatValue(Min(Max(value, 0), 127), 127)

\* Utilities.offsetNumber: the note number moved by whole octaves, kept within 0..127.
offsetNumber(n, octaves) == Min(Max(n + (octaves * 12), 0), 127)

\* The twelve note names of an octave, from C.
NoteNames == <<"C", "C#", "D", "D#", "E", "F", "F#", "G", "G#", "A", "A#", "B">>

\* Utilities.toNoteIdentifier: name and octave of a note number; number 60 is C4.
toNoteIdentifier(n) == [name |-> NoteNames[(n % 12) + 1], octave |-> (n \div 12) - 1]

\* Utilities.toNoteNumber: the note number of an identifier.
toNoteNumber(identifier) ==
    ((identifier.octave + 1) * 12)
        + ((CHOOSE i \in 1 .. 12 : NoteNames[i] = identifier.name) - 1)

NoIdentifier == [name |-> "undefined", octave |-> Undefined]

NoNote ==
    [number |-> Undefined, identifier |-> NoIdentifier, attack |-> NoValue,
     release |-> NoValue]

(* new Note(value, {rawAttack, rawRelease}); an option that is Undefined is not
   given.  The note keeps the identifier of value; its number is read back
   from the identifier. *)
Note(value, rawAttack, rawRelease) ==
    [number |-> toNoteNumber(toNoteIdentifier(value)),
     identifier |-> toNoteIdentifier(value),
     attack |-> IF rawAttack # Undefined THEN toNormalized(rawAttack) ELSE toNormalized(64),
     release |-> IF rawRelease # Undefined THEN toNormalized(rawRelease) ELSE toNormalized(64)]

----------------------------------------------------------------------------
(* Message decoding *)

\* Message.type from the command nibble of the status byte.
MessageType(command) ==
    CASE command = 8 -> "noteoff"
      [] command = 9 -> "noteon"
      [] command = 10 -> "keyaftertouch"
      [] command = 11 -> "controlchange"
      [] command = 12 -> "programchange"
      [] command = 13 -> "channelaftertouch"
      [] command = 14 -> "pitchbend"
      [] OTHER -> "unknownmessage"

\* new Message(data): data is <<status, data byte, ...>>.
Message(data) ==
    [statusByte |-> data[1],
     command |-> data[1] \div 16,
     channel |-> (data[1] % 16) + 1,
     type |-> MessageType(data[1] \div 16),
     data |-> data,
     dataBytes |-> SubSeq(data, 2, Len(data))]

NoMessage == Message(<<0>>)

\* WebMidi.MIDI_CONTROL_CHANGE_MESSAGES looked up by value (Utilities.getPropertyByValue).
ControlChangeName(n) ==
    CASE n = 120 -> "allsoundoff"
      [] n = 121 -> "resetallcontrollers"
      [] n = 122 -> "localcontrol"
      [] n = 123 -> "allnotesoff"
      [] n = 124 -> "omnimodeoff"
      [] n = 125 -> "omnimodeon"
      [] n = 126 -> "polymodeon"
      [] n = 127 -> "monomodeon"
      [] OTHER -> "controller"

\* InputChannel.getCcNameByNumber: the name it returns for a number within 0..127.
getCcNameByNumber(n) == ControlChangeName(n)

----------------------------------------------------------------------------
(* InputChannel: events *)

NoController == [number |-> Undefined, name |-> "undefined"]

(* An event object handed to emit(): type is the event's name; sub is the number
   that ends a name such as controlchange-controller7 (Undefined when the name
   has none); by names the method that emitted it. *)
Event(type, by) ==
    [type |-> type, sub |-> Undefined, by |-> by, target |-> number,
     value |-> NoValue, rawValue |-> Undefined, velocity |-> NoValue,
     rawVelocity |-> Undefined, note |-> NoNote, key |-> Undefined,
     rawKey |-> Undefined, controller |-> NoController]

ByteAt(bytes, i) == IF i <= Len(bytes) THEN bytes[i] ELSE Undefined

\* Utilities.fromFloatTo7Bit: the fraction times 127, rounded, kept within 0..127.
fromFloatTo7Bit(v) == Min(Max(((2 * v.n * 127) + v.d) \div (2 * v.d), 0), 127)

\* Mutant: the poly-mode message keeps its controller name instead of the alias.
_parseChannelModeMessage_NoPolyAlias(e, msg) ==
    LET event == [e EXCEPT !.type = e.controller.name, !.by = "_parseChannelModeMessage"]
    IN  IF event.type = "localcontrol"
        THEN [event EXCEPT !.value = BoolValue(msg.data[3] = 127)]
        ELSE IF event.type = "omnimodeon"
        THEN [event EXCEPT !.type = "omnimode", !.value = BoolValue(TRUE)]
        ELSE IF event.type = "omnimodeoff"
        THEN [event EXCEPT !.type = "omnimode", !.value = BoolValue(FALSE)]
        ELSE IF event.type = "monomodeon"
        THEN [event EXCEPT !.type = "monomode", !.value = BoolValue(TRUE)]
        ELSE event

(* InputChannel._parseChannelModeMessage: the event it emits, a copy of the
   controlchange event e renamed after the controller. *)
_parseChannelModeMessage(e, msg) ==
    LET event == [e EXCEPT !.type = e.controller.name, !.by = "_parseChannelModeMessage"]
        ev1 == IF event.type = "localcontrol"
               THEN [event EXCEPT !.value = BoolValue(msg.data[3] = 127)]
               ELSE event
        ev2 == IF ev1.type = "omnimodeon"
               THEN [ev1 EXCEPT !.type = "omnimode", !.value = BoolValue(TRUE)]
               ELSE IF ev1.type = "omnimodeoff"
               THEN [ev1 EXCEPT !.type = "omnimode", !.value = BoolValue(FALSE)]
               ELSE ev1
        ev3 == IF ev2.type = "monomodeon"
               THEN [ev2 EXCEPT !.type = "monomode", !.value = BoolValue(TRUE)]
               ELSE IF ev2.type = "polymodeon"
               THEN [ev2 EXCEPT !.type = "monomode", !.value = BoolValue(FALSE)]
               ELSE ev2
    IN  ev3

\* Mutant: the channel-mode parser is entered one controller too late.
isChannelModeController_Above120(n) == n > 120

\* Mutant: only the channel's own offset moves the note.
TotalOctaveOffset_ChannelOnly == octaveOffset

\* The octaves a note is moved by: this.octaveOffset + this.input.octaveOffset
\* + WebMidi.octaveOffset.
TotalOctaveOffset == octaveOffset + inputOctaveOffset + webMidiOctaveOffset

\* Mutant: the two data bytes change places.
pitchBendRawValue_Swapped(data1, data2) == (data1 * 128) + data2

\* (data2 << 7) + data1: the 14-bit value of a pitch bend, data2 the high bits.
pitchBendRawValue(data1, data2) == (data2 * 128) + data1

\* The test that sends a control change to the channel-mode parser as well.
isChannelModeController(n) == n >= 120

\* Mutant: a message of no known type is dropped.
unknownMessage_Dropped(event) == <<>>

\* The last branch of the standard parser: the event is renamed and still emitted.
unknownMessage(event) == <<[event EXCEPT !.type = "unknownmessage"]>>

(* InputChannel._parseEventForStandardMessages: the events it emits for the
   message msg, in the order of the emit() calls. *)
_parseEventForStandardMessages(msg) ==
    LET type == msg.type
        data1 == ByteAt(msg.dataBytes, 1)
        data2 == ByteAt(msg.dataBytes, 2)
        event == Event(type, "_parseEventForStandardMessages")
        offNote == Note(offsetNumber(data1, TotalOctaveOffset), 0, data2)
        onNote == Note(offsetNumber(data1, TotalOctaveOffset), data2, Undefined)
        cc == [event EXCEPT !.controller = [number |-> data1,
                                             name |-> getCcNameByNumber(data1)],
                            !.value = toNormalized(data2),
                            !.rawValue = data2]
    IN  IF type = "noteoff" \/ (type = "noteon" /\ data2 = 0)
        THEN <<[event EXCEPT !.note = offNote,
                             !.value = toNormalized(data2),
                             !.rawValue = data2,
                             !.velocity = offNote.release,
                             !.rawVelocity = fromFloatTo7Bit(offNote.release)]>>
        ELSE IF type = "noteon"
        THEN <<[event EXCEPT !.note = onNote,
                             !.value = toNormalized(data2),
                             !.rawValue = data2,
                             !.velocity = onNote.attack,
                             !.rawVelocity = fromFloatTo7Bit(onNote.attack)]>>
        ELSE IF type = "keyaftertouch"
        THEN <<[event EXCEPT !.key = offsetNumber(data1, TotalOctaveOffset),
                             !.rawKey = data1,
                             !.value = toNormalized(data2),
                             !.rawValue = data2,
                             !.note = Note(offsetNumber(data1, TotalOctaveOffset),
                                           Undefined, Undefined)]>>
        ELSE IF type = "controlchange"
        THEN (IF isChannelModeController(msg.dataBytes[1])
              THEN <<_parseChannelModeMessage(cc, msg)>>
              ELSE <<>>) \o <<cc>>
        ELSE IF type = "programchange"
        THEN <<[event EXCEPT !.value = IntValue(data1 + 1), !.rawValue = data1]>>
        ELSE IF type = "channelaftertouch"
        THEN <<[event EXCEPT !.value = toNormalized(data1), !.rawValue = data1]>>
        ELSE IF type = "pitchbend"
        THEN <<[event EXCEPT !.value = FloatValue(pitchBendRawValue(data1, data2) - 8192,
                                                  8192),
                             !.rawValue = pitchBendRawValue(data1, data2)]>>
        ELSE unknownMessage(event)

(* InputChannel.getCcNameByNumber: the error it throws, "none" when it returns.
   With WebMidi.validation on, the number is parsed as an integer and must be
   within 0..127; a missing number parses to NaN, which is not. *)
getCcNameByNumber_throws(n) ==
    IF validation /\ ~(n >= 0 /\ n <= 127) THEN "RangeError" ELSE "none"

(* InputChannel._parseEventForStandardMessages: the error that ends it before
   its emit, "none" when it reaches the emit.  The control-change branch looks
   the controller's name up with getCcNameByNumber, outside any try. *)
_parseEventForStandardMessages_throws(msg) ==
    IF msg.type = "controlchange"
    THEN getCcNameByNumber_throws(ByteAt(msg.dataBytes, 1))
    ELSE "none"

\* Mutant: the message is parsed before 'midimessage' is emitted.
_processMidiMessageEvent_ParsedFirst(msg) ==
    _parseEventForStandardMessages(msg)
        \o <<Event("midimessage", "_processMidiMessageEvent")>>

(* InputChannel._processMidiMessageEvent: the 'midimessage' event, then the
   events of the standard parser.  The parameter-number parser is not called. *)
_processMidiMessageEvent(msg) ==
    <<Event("midimessage", "_processMidiMessageEvent")>>
        \o _parseEventForStandardMessages(msg)

----------------------------------------------------------------------------
(* InputChannel: state and operations *)

\* The raw messages (status byte, data bytes) the host delivers to channel n.
Inputs(n) ==
    LET status(command) == (command * 16) + (n - 1)
    IN  {<<status(c), d1, d2>> : c \in {8, 9, 10}, d1 \in SampleNotes, d2 \in SampleValues}
        \cup {<<status(11), d1, d2>> : d1 \in ControllerNumbers, d2 \in SampleValues}
        \cup {<<status(c), d1>> : c \in {12, 13}, d1 \in SampleValues}
        \cup {<<status(14), d1, d2>> : d1 \in SampleValues, d2 \in SampleValues}
        \cup {<<status(15), d1, d2>> : d1 \in {0}, d2 \in SampleValues}

\* Names of the events of the parameter-number (RPN/NRPN) family.
NrpnEventNames ==
    {"nrpn", "nrpn-dataentrycoarse", "nrpn-dataentryfine", "nrpn-dataincrement",
     "nrpn-datadecrement"}
RpnEventNames ==
    {"rpn", "rpn-dataentrycoarse", "rpn-dataentryfine", "rpn-dataincrement",
     "rpn-datadecrement"}
IsParameterNumberEvent(ev) == ev.type \in (NrpnEventNames \cup RpnEventNames)

(* History of control changes.  Two scenarios of control changes (controller,
   value) are followed: a complete NRPN sequence, and the same sequence after a
   broken start (CC99 then CC6, CC98 skipped). *)
CompleteSequence == << <<99, 3>>, <<98, 12>>, <<6, 64>>, <<38, 0>> >>
BrokenStart == << <<99, 3>>, <<6, 64>> >>
RecoverySequence == BrokenStart \o CompleteSequence

IsPrefix(s, t) == Len(s) <= Len(t) /\ SubSeq(t, 1, Len(s)) = s
TrailPairs(trail) == [i \in 1 .. Len(trail) |-> <<trail[i].cc, trail[i].val>>]
Suffix(s, k) == SubSeq(s, (Len(s) - k) + 1, Len(s))

(* The trail after the control change entry is handled: the longest end of the
   control changes handled so far that starts one of the two scenarios. *)
TrailAfter(trail, entry) ==
    LET all == Append(trail, entry)
        fits(k) == \/ IsPrefix(TrailPairs(Suffix(all, k)), CompleteSequence)
                   \/ IsPrefix(TrailPairs(Suffix(all, k)), RecoverySequence)
        best == CHOOSE k \in 0 .. Len(all) :
                    fits(k) /\ \A j \in 0 .. Len(all) : fits(j) => j <= k
    IN  Suffix(all, best)

(* A call: what was called, with what argument, the error thrown ("none" when
   it returned), the name returned by a lookup, and the number read back after
   a conversion (Undefined when there is none). *)
Outcome(op, arg, raised, result) ==
    [op |-> op, arg |-> arg, raised |-> raised, result |-> result, read |-> Undefined]

NoOutcome == Outcome("none", Undefined, "none", "none")

InitChannel ==
    /\ number \in 1 .. NumChannels
    /\ octaveOffset = 0
    /\ inputOctaveOffset = 0
    /\ webMidiOctaveOffset = 0
    /\ phase = "idle"
    /\ message = NoMessage
    /\ emitted = <<>>
    /\ ccTrail = <<>>
    /\ outcome = NoOutcome

\* Messages that are not well-formed control changes: the controller byte is
\* missing or is above 127.
MalformedInputs(n) ==
    LET status(command) == (command * 16) + (n - 1)
    IN  {<<status(11)>>}
        \cup {<<status(11), d1, d2>> : d1 \in {128, 200, 255}, d2 \in SampleValues}

(* The host delivers one of the messages to the channel
   (InputChannel._processMidiMessageEvent): the channel handles it to the end,
   or up to the call that throws, after the emit of 'midimessage'. *)
ProcessOf(messages) ==
    /\ phase = "idle"
    /\ \E data \in messages :
        LET msg == Message(data)
            raised == _parseEventForStandardMessages_throws(msg)
            evs == IF raised = "none"
                   THEN _processMidiMessageEvent(msg)
                   ELSE <<Event("midimessage", "_processMidiMessageEvent")>>
        IN  /\ message' = msg
            /\ emitted' = evs
            /\ outcome' = Outcome("_processMidiMessageEvent", Undefined, raised, "none")
            /\ ccTrail' = IF msg.type = "controlchange" /\ raised = "none"
                          THEN TrailAfter(ccTrail,
                                   [cc |-> msg.dataBytes[1], val |-> msg.dataBytes[2],
                                    pn |-> SelectSeq(evs, IsParameterNumberEvent)])
                          ELSE ccTrail
    /\ phase' = "handled"
    /\ UNCHANGED <<number, octaveOffset, inputOctaveOffset, webMidiOctaveOffset>>
    /\ UNCHANGED emitterVars
    /\ UNCHANGED midiVars

\* The host delivers a well-formed message.
ProcessMidiMessageEvent == ProcessOf(Inputs(number))

\* The host delivers a control change that is not well-formed.
ProcessMalformedMessage == ProcessOf(MalformedInputs(number))

\* The numbers tried in an explicit lookup (Undefined: no argument).
LookupNumbers == {-1, 0, 7, 64, 120, 127, 128, 200, Undefined}

\* The program calls channel.getCcNameByNumber(n).
GetCcNameByNumber ==
    /\ phase = "idle"
    /\ \E n \in LookupNumbers :
        outcome' = Outcome("getCcNameByNumber", n, getCcNameByNumber_throws(n),
                           IF getCcNameByNumber_throws(n) = "none"
                           THEN getCcNameByNumber(n)
                           ELSE "none")
    /\ phase' = "called"
    /\ UNCHANGED <<number, octaveOffset, inputOctaveOffset, webMidiOctaveOffset,
                   message, emitted, ccTrail>>
    /\ UNCHANGED emitterVars
    /\ UNCHANGED midiVars

\* The integers assigned to an octaveOffset property.
OffsetValues == {-1, 0, 1, 2}
\* A value that parseInt turns into NaN, such as the string "abc".
Unparsable == -998

\* isNaN(parseInt(value))
isNaN_parseInt(value) == value = Unparsable \/ value = Undefined

(* this.validation read on an InputChannel: neither its constructor nor the
   emitter it extends defines the property, so the read gives undefined. *)
InputChannel_validation == FALSE

\* set InputChannel.octaveOffset: the error it throws, "none" when it stores the value.
InputChannel_octaveOffset_throws(value) ==
    IF InputChannel_validation /\ isNaN_parseInt(value) THEN "TypeError" ELSE "none"

(* set WebMidi.octaveOffset(arg): the error it throws.  The body reads value,
   which no scope declares, whether validation is on (parseInt(value)) or off
   (this._octaveOffset = value). *)
WebMidi_octaveOffset_throws(arg) == "ReferenceError"

\* The program assigns one of the values to channel.octaveOffset.
SetOctaveOffsetOf(values) ==
    /\ phase = "idle"
    /\ \E value \in values :
        LET raised == InputChannel_octaveOffset_throws(value)
        IN  /\ outcome' = Outcome("set InputChannel.octaveOffset", value, raised, "none")
            /\ octaveOffset' = IF raised = "none" THEN value ELSE octaveOffset
    /\ phase' = "called"
    /\ UNCHANGED <<number, inputOctaveOffset, webMidiOctaveOffset, message, emitted,
                   ccTrail>>
    /\ UNCHANGED emitterVars
    /\ UNCHANGED midiVars

SetOctaveOffset == SetOctaveOffsetOf(OffsetValues)

SetOctaveOffsetUnparsable == SetOctaveOffsetOf({Unparsable})

\* The program assigns an integer to input.octaveOffset.
SetInputOctaveOffset ==
    /\ phase = "idle"
    /\ \E value \in OffsetValues :
        /\ outcome' = Outcome("set Input.octaveOffset", value, "none", "none")
        /\ inputOctaveOffset' = value
    /\ phase' = "called"
    /\ UNCHANGED <<number, octaveOffset, webMidiOctaveOffset, message, emitted, ccTrail>>
    /\ UNCHANGED emitterVars
    /\ UNCHANGED midiVars

\* The program assigns an integer or an unparsable value to WebMidi.octaveOffset.
SetWebMidiOctaveOffset ==
    /\ phase = "idle"
    /\ \E arg \in OffsetValues \cup {Unparsable} :
        LET raised == WebMidi_octaveOffset_throws(arg)
        IN  /\ outcome' = Outcome("set WebMidi.octaveOffset", arg, raised, "none")
            /\ webMidiOctaveOffset' = IF raised = "none" THEN arg ELSE webMidiOctaveOffset
    /\ phase' = "called"
    /\ UNCHANGED <<number, octaveOffset, inputOctaveOffset, message, emitted, ccTrail>>
    /\ UNCHANGED emitterVars
    /\ UNCHANGED midiVars

\* The note-on and note-off messages the host delivers to channel n.
NoteInputs(n) ==
    LET status(command) == (command * 16) + (n - 1)
    IN  {<<status(c), d1, d2>> : c \in {8, 9}, d1 \in SampleNotes, d2 \in SampleValues}

\* The program computes Utilities.fromFloatTo7Bit(Utilities.from7bitToFloat(v)).
ConvertThereAndBack ==
    /\ phase = "idle"
    /\ \E v \in 0 .. 127 :
        outcome' = [Outcome("fromFloatTo7Bit(from7bitToFloat(v))", v, "none", "none")
                        EXCEPT !.read = fromFloatTo7Bit(toNormalized(v))]
    /\ phase' = "called"
    /\ UNCHANGED <<number, octaveOffset, inputOctaveOffset, webMidiOctaveOffset,
                   message, emitted, ccTrail>>
    /\ UNCHANGED emitterVars
    /\ UNCHANGED midiVars

(* A setter of the Note class (duration, attack, release, identifier,
   rawAttack, rawRelease, ...): the error it throws.  Each is declared with
   the parameter arg and reads value, which no scope of a setter declares. *)
Note_setter_throws(arg) == "ReferenceError"

(* new Note(value, options) of the Note class: the error it throws.  Its
   first statement assigns the default duration through the duration setter. *)
Note_constructor_throws(value, options) ==
    Note_setter_throws("WebMidi.defaults.note.duration")

\* The options with which a Note is built: the raw velocity that is given.
RawVelocityOptions == {"rawAttack", "rawRelease"}

(* The program builds a Note with options.rawAttack (or rawRelease) = v and
   reads its rawAttack (rawRelease) back. *)
NewNote ==
    /\ phase = "idle"
    /\ \E value \in SampleNotes, option \in RawVelocityOptions, v \in 0 .. 127 :
        LET raised == Note_constructor_throws(value, [name |-> option, raw |-> v])
        IN  outcome' = [Outcome("new Note", v, raised, option)
                            EXCEPT !.read = IF raised = "none"
                                            THEN fromFloatTo7Bit(toNormalized(v))
                                            ELSE Undefined]
    /\ phase' = "called"
    /\ UNCHANGED <<number, octaveOffset, inputOctaveOffset, webMidiOctaveOffset,
                   message, emitted, ccTrail>>
    /\ UNCHANGED emitterVars
    /\ UNCHANGED midiVars

\* The pitch-bend messages the host delivers to channel n: every pair of data bytes.
PitchBendInputs(n) ==
    LET status(command) == (command * 16) + (n - 1)
    IN  {<<status(14), d1, d2>> : d1 \in 0 .. 127, d2 \in 0 .. 127}

\* The host delivers a pitch-bend message.
ProcessPitchBendMessage == ProcessOf(PitchBendInputs(number))

\* The host delivers a note-on or a note-off message.
ProcessNoteMessage == ProcessOf(NoteInputs(number))

\* The handler or the call has ended; the channel waits for the next message.
Return ==
    /\ phase # "idle"
    /\ phase' = "idle"
    /\ message' = NoMessage
    /\ emitted' = <<>>
    /\ outcome' = NoOutcome
    /\ UNCHANGED <<number, octaveOffset, inputOctaveOffset, webMidiOctaveOffset, ccTrail>>
    /\ UNCHANGED emitterVars
    /\ UNCHANGED midiVars

----------------------------------------------------------------------------
(* EventEmitter and Listener *)

\* Listeners created over the life of the emitter.
MaxListeners == 2
\* emit() is not called once a listener has been executed this many times.
MaxCount == 2
\* The values of options.remaining tried (Undefined: not given).
RemainingOptions == {Undefined, 1, 2}

\* JavaScript's Infinity: larger than every finite count, and unchanged by decrement.
Infinity == 1000000

\* String(EventEmitter.ANY_EVENT), the key of the global listeners in eventMap.
ANY_EVENT == "Symbol(Any event)"
\* The regular event names tried.
EventNames == {"a"}
\* The callback functions tried.
Callbacks == {"f", "g"}
\* The values of options.context tried ("undefined": not given).
ContextOptions == {"undefined"}

\* The listeners array of a key (EventEmitter.getListeners).
getListeners(map, key) == IF key \in DOMAIN map THEN map[key] ELSE <<>>

InSeq(x, seq) == \E i \in 1 .. Len(seq) : seq[i] = x

(* new Listener(event, target, callback, options): remaining is
   options.remaining when it is at least 1, Infinity otherwise; context is the
   emitter unless given.  initial keeps the remaining count it started with.
   timer is the setTimeout made when options.duration is given and finite:
   "none", "pending" or "fired"; nothing keeps its handle. *)
Listener(event, callback, options) ==
    [event |-> event,
     callback |-> callback,
     context |-> IF options.context = "undefined" THEN "target" ELSE options.context,
     count |-> 0,
     remaining |-> IF options.remaining >= 1 THEN options.remaining ELSE Infinity,
     initial |-> IF options.remaining >= 1 THEN options.remaining ELSE Infinity,
     suspended |-> FALSE,
     timer |-> IF "duration" \in DOMAIN options /\ options.duration # Infinity
               THEN "pending"
               ELSE "none"]

\* Mutant: the count is never decremented.
Decrement_Forgotten(remaining) == remaining

\* --listener.remaining
Decrement(remaining) == IF remaining = Infinity THEN Infinity ELSE remaining - 1

\* A value that counts as true in a condition: given, and not 0.
Truthy(x) == x # Undefined /\ x # 0

\* Mutant: the key of an event is kept when its last listener is removed.
removeListener_KeepsEmptyKey(map, lst, event, callback, options) ==
    IF event \notin DOMAIN map
    THEN map
    ELSE LET keep(id) ==
                 \/ callback # "undefined" /\ lst[id].callback # callback
                 \/ Truthy(options.remaining) /\ options.remaining # lst[id].remaining
                 \/ options.context # "undefined" /\ options.context # lst[id].context
         IN  [map EXCEPT ![event] = SelectSeq(map[event], keep)]

(* EventEmitter.removeListener(event, callback, options) with the event given:
   the eventMap afterwards.  The listeners kept are those that differ from a
   criterion that is given. *)
removeListener(map, lst, event, callback, options) ==
    IF event \notin DOMAIN map
    THEN map
    ELSE LET keep(id) ==
                 \/ callback # "undefined" /\ lst[id].callback # callback
                 \/ Truthy(options.remaining) /\ options.remaining # lst[id].remaining
                 \/ options.context # "undefined" /\ options.context # lst[id].context
             kept == SelectSeq(map[event], keep)
         IN  IF Len(kept) > 0
             THEN [map EXCEPT ![event] = kept]
             ELSE [k \in DOMAIN map \ {event} |-> map[k]]

\* Listener.remove() of the listener id: the eventMap afterwards.
remove(map, lst, id) ==
    removeListener(map, lst, lst[id].event, lst[id].callback,
                   [context |-> lst[id].context, remaining |-> lst[id].remaining])

\* The list emit() walks: the global listeners, then those of the event.
emitOrder(map, event) ==
    IF event \in DOMAIN map
    THEN getListeners(map, ANY_EVENT) \o map[event]
    ELSE getListeners(map, ANY_EVENT)

(* What a callback function does when it is executed: "return" (it returns
   its value), "throw" (it throws), "removeOwn" (it calls remove() on the
   listener it was registered with, then returns), "removeAll" (it calls
   removeListener() without arguments on the emitter, then returns),
   "emitAgain" (unless it is running already, it calls emit() for the event
   being emitted, then returns). *)
Behaviour(callback) ==
    CASE callback = "thrower" -> "throw"
      [] callback = "removeOwn" -> "removeOwn"
      [] callback = "removeAll" -> "removeAll"
      [] callback = "emitAgain" -> "emitAgain"
      [] OTHER -> "return"

\* The value a callback function returns: one value per function.
ReturnValue(callback) == [returnedBy |-> callback]

\* The eventMap after the callback of the listener id has run.
afterCallback(map, lst, id) ==
    CASE Behaviour(lst[id].callback) = "removeOwn" -> remove(map, lst, id)
      [] Behaviour(lst[id].callback) = "removeAll" -> <<>>
      [] OTHER -> map

\* Mutant: the listener's flag is not looked at.
skipped_Never(listener) == FALSE

\* if (listener.suspended) return;
skipped(listener) == listener.suspended

RECURSIVE emitLoop(_, _, _)

(* The body of the forEach of emit() for one listener.  st holds the eventMap,
   the listeners, the ids whose callback was called so far, the values
   collected, whether a callback has thrown, the event emitted, and whether
   this emit() was called by a callback.  A callback that calls emit() runs that emit() to its
   end, on the eventMap and the listeners as they are when it is called,
   before the count and the remaining of its listener are updated. *)
emitOne(st, id) ==
    LET l == st.lst[id]
    IN  IF skipped(l)
        THEN st
        ELSE LET called == l.remaining > 0
                 reenters == called /\ Behaviour(l.callback) = "emitAgain" /\ ~st.nested
                 inner == IF reenters
                          THEN emitLoop([st EXCEPT !.invoked = Append(st.invoked, id),
                                                   !.results = <<>>,
                                                   !.nested = TRUE],
                                        emitOrder(st.map, st.event), 1)
                          ELSE st
                 throws == called /\ (Behaviour(l.callback) = "throw"
                                          \/ (reenters /\ inner.thrown))
                 invoked == IF reenters THEN inner.invoked
                            ELSE IF called THEN Append(st.invoked, id)
                            ELSE st.invoked
                 cur == inner.lst[id]
                 map1 == IF called THEN afterCallback(inner.map, inner.lst, id) ELSE inner.map
                 l2 == [cur EXCEPT !.count = IF called THEN cur.count + 1 ELSE cur.count,
                                   !.remaining = Decrement(cur.remaining)]
                 lst2 == [inner.lst EXCEPT ![id] = l2]
             IN  IF throws
                 THEN [map |-> inner.map, lst |-> inner.lst, invoked |-> invoked,
                       results |-> st.results, thrown |-> TRUE, event |-> st.event,
                       nested |-> st.nested]
                 ELSE [map |-> IF l2.remaining < 1 THEN remove(map1, lst2, id) ELSE map1,
                       lst |-> lst2,
                       invoked |-> invoked,
                       results |-> IF called
                                   THEN Append(st.results, ReturnValue(l.callback))
                                   ELSE st.results,
                       thrown |-> FALSE,
                       event |-> st.event,
                       nested |-> st.nested]

\* Mutant: an exception thrown by a callback is swallowed.
aborted_Never(st) == FALSE

\* No try/catch around the callback: an exception leaves the forEach and emit().
aborted(st) == st.thrown

\* Mutant: the forEach walks the list as eventMap holds it now.
visited_IfStillRegistered(st, id) == InSeq(id, getListeners(st.map, st.lst[id].event))

(* The forEach walks the array built before the first callback; removeListener
   never changes that array, it stores a filtered copy in eventMap. *)
visited(st, id) == TRUE

\* The forEach of emit(): an exception thrown by a callback ends it.
emitLoop(st, order, i) ==
    IF i > Len(order) \/ aborted(st)
    THEN st
    ELSE emitLoop(IF visited(st, order[i]) THEN emitOne(st, order[i]) ELSE st,
                  order, i + 1)

\* Mutant: the emitter's flag is not looked at.
shortCircuited_Never(suspended) == FALSE

\* if (this.eventsSuspended) return;
shortCircuited(suspended) == suspended

\* What emit() hands back when it returns without a value.
ReturnsUndefined == [isArray |-> FALSE, values |-> <<>>]

(* EventEmitter.emit(event): the eventMap and the listeners afterwards, the list
   walked, the ids whose callback was called, whether a callback threw, and
   the value returned (none when a callback threw). *)
emit(map, lst, suspended, event) ==
    IF shortCircuited(suspended)
    THEN [map |-> map, lst |-> lst, order |-> <<>>, invoked |-> <<>>,
          thrown |-> FALSE, returned |-> ReturnsUndefined]
    ELSE LET order == emitOrder(map, event)
             st == emitLoop([map |-> map, lst |-> lst, invoked |-> <<>>,
                             results |-> <<>>, thrown |-> FALSE, event |-> event,
                             nested |-> FALSE],
                            order, 1)
         IN  [map |-> st.map, lst |-> st.lst, order |-> order, invoked |-> st.invoked,
              thrown |-> st.thrown,
              returned |-> IF st.thrown
                           THEN ReturnsUndefined
                           ELSE [isArray |-> TRUE, values |-> st.results]]

(* What the history variable last records of an emit(): the event, the list
   walked, the listeners whose callback was called in order, the value
   returned, whether a callback threw, and the two lists of eventMap and the
   emitter's flag as they were when emit() was called. *)
Op(name, event, r) ==
    [op |-> name, event |-> event, order |-> r.order, invoked |-> r.invoked,
     returned |-> r.returned, thrown |-> r.thrown,
     any |-> getListeners(eventMap, ANY_EVENT),
     specific |-> getListeners(eventMap, event),
     suspended |-> eventsSuspended]

\* A promise settles once: resolve or reject on a settled promise changes nothing.
settle(promise, state) == IF promise = "pending" THEN state ELSE promise

\* Mutant: the callback of waitFor leaves the timeout pending.
timeoutAfterCallback_NotCleared(timeout) == timeout

\* clearTimeout(timeout) in the callback of waitFor: a pending timeout is cleared.
timeoutAfterCallback(timeout) == IF timeout = "pending" THEN "cleared" ELSE timeout

(* The waitFor calls after an emit() that executed the listeners invoked: the
   callback of a waitFor listener clears the timeout and resolves the promise. *)
afterEmit(w, invoked) ==
    [k \in DOMAIN w |->
        IF InSeq(w[k].listener, invoked)
        THEN [w[k] EXCEPT !.timeout = timeoutAfterCallback(@),
                          !.promise = settle(@, "fulfilled"),
                          !.resolved = @ + 1]
        ELSE w[k]]

\* Recorded after an operation other than emit().
NoEmit ==
    [op |-> "other", event |-> "", order |-> <<>>, invoked |-> <<>>,
     returned |-> ReturnsUndefined, thrown |-> FALSE,
     any |-> <<>>, specific |-> <<>>, suspended |-> FALSE]

InitEmitter ==
    /\ eventMap = <<>>
    /\ listeners = <<>>
    /\ eventsSuspended = FALSE
    /\ last = NoEmit
    /\ waits = <<>>

(* EventEmitter.addListener(event, callback, {context, prepend, remaining}),
   the callback, options.remaining and options.prepend drawn from the sets given. *)
AddListenerOf(callbacks, remainings, prepends) ==
    /\ Len(listeners) < MaxListeners
    /\ \E event \in EventNames \cup {ANY_EVENT}, callback \in callbacks,
          context \in ContextOptions, prepend \in prepends,
          remaining \in remainings :
        LET id == Len(listeners) + 1
            listener == Listener(event, callback,
                                 [context |-> context, remaining |-> remaining])
            old == getListeners(eventMap, event)
            new == IF prepend THEN <<id>> \o old ELSE Append(old, id)
        IN  /\ listeners' = Append(listeners, listener)
            /\ eventMap' = [k \in DOMAIN eventMap \cup {event} |->
                               IF k = event THEN new ELSE eventMap[k]]
            /\ last' = NoEmit
    /\ UNCHANGED eventsSuspended
    /\ UNCHANGED waits
    /\ UNCHANGED chanVars
    /\ UNCHANGED midiVars

\* EventEmitter.addListener with a callback that only returns a value.
AddListener == AddListenerOf(Callbacks, RemainingOptions, BOOLEAN)

\* EventEmitter.addListener, every listener with the same callback function.
AddSameListener == AddListenerOf({"f"}, RemainingOptions, BOOLEAN)

\* The callback functions that act on the emitter or throw, and one that does not.
ActingCallbacks == {"f", "thrower", "removeOwn", "removeAll"}

\* EventEmitter.addListener with a callback that may remove listeners or throw.
AddActingListener == AddListenerOf(ActingCallbacks, RemainingOptions, {FALSE})

\* The callback functions tried where a callback calls emit().
ReentrantCallbacks == {"f", "emitAgain"}

\* EventEmitter.addListener with a callback that may call emit() itself.
AddReentrantListener == AddListenerOf(ReentrantCallbacks, RemainingOptions, {FALSE})

\* EventEmitter.addOneTimeListener(event, callback, {context, prepend}): remaining is 1.
AddOneTimeListener ==
    /\ Len(listeners) < MaxListeners
    /\ \E event \in EventNames \cup {ANY_EVENT}, callback \in Callbacks,
          context \in ContextOptions, prepend \in BOOLEAN :
        LET id == Len(listeners) + 1
            listener == Listener(event, callback, [context |-> context, remaining |-> 1])
            old == getListeners(eventMap, event)
            new == IF prepend THEN <<id>> \o old ELSE Append(old, id)
        IN  /\ listeners' = Append(listeners, listener)
            /\ eventMap' = [k \in DOMAIN eventMap \cup {event} |->
                               IF k = event THEN new ELSE eventMap[k]]
            /\ last' = NoEmit
    /\ UNCHANGED eventsSuspended
    /\ UNCHANGED waits
    /\ UNCHANGED chanVars
    /\ UNCHANGED midiVars

\* The values of options.duration tried, in milliseconds.
DurationOptions == {1000}

\* EventEmitter.addListener(event, callback, {duration}): a timer is started.
AddTimedListener ==
    /\ Len(listeners) < MaxListeners
    /\ \E event \in EventNames \cup {ANY_EVENT}, callback \in Callbacks,
          duration \in DurationOptions :
        LET id == Len(listeners) + 1
            listener == Listener(event, callback,
                                 [context |-> "undefined", remaining |-> Undefined,
                                  duration |-> duration])
        IN  /\ listeners' = Append(listeners, listener)
            /\ eventMap' = [k \in DOMAIN eventMap \cup {event} |->
                               IF k = event
                               THEN Append(getListeners(eventMap, event), id)
                               ELSE eventMap[k]]
            /\ last' = NoEmit
    /\ UNCHANGED eventsSuspended
    /\ UNCHANGED waits
    /\ UNCHANGED chanVars
    /\ UNCHANGED midiVars

(* The timer of a listener fires, at any time after the listener was made:
   the function given to setTimeout calls remove() on the listener. *)
TimerFires ==
    /\ \E id \in DOMAIN listeners :
        /\ listeners[id].timer = "pending"
        /\ listeners' = [listeners EXCEPT ![id].timer = "fired"]
        /\ eventMap' = remove(eventMap, listeners, id)
        /\ last' = [NoEmit EXCEPT !.op = "timer", !.order = <<id>>]
    /\ UNCHANGED eventsSuspended
    /\ UNCHANGED waits
    /\ UNCHANGED chanVars
    /\ UNCHANGED midiVars

\* The callback function made by a waitFor call, one per call, named by its listener.
WaitForCallbacks == <<"resolve 1", "resolve 2", "resolve 3", "resolve 4">>

\* The values of options.duration tried in waitFor (0 and Infinity: no time limit).
WaitDurations == {0, 1000, Infinity}

\* waitFor: options.duration after 'if (isNaN(...) || options.duration <= 0)'.
waitForDuration(duration) == IF duration <= 0 THEN Infinity ELSE duration

(* EventEmitter.waitFor(event, {duration}): a promise is made; a listener is
   added with remaining 1 and the duration, and its callback clears the
   timeout and resolves the promise; when the duration is finite a timeout is
   set, after the timer of the listener, that removes the listener and rejects
   the promise. *)
WaitFor ==
    /\ Len(listeners) < MaxListeners
    /\ \E event \in EventNames \cup {ANY_EVENT}, duration \in WaitDurations :
        LET id == Len(listeners) + 1
            listener == Listener(event, WaitForCallbacks[id],
                                 [context |-> "undefined", remaining |-> 1,
                                  duration |-> waitForDuration(duration)])
        IN  /\ listeners' = Append(listeners, listener)
            /\ eventMap' = [k \in DOMAIN eventMap \cup {event} |->
                               IF k = event
                               THEN Append(getListeners(eventMap, event), id)
                               ELSE eventMap[k]]
            /\ waits' = Append(waits,
                               [listener |-> id,
                                promise |-> "pending",
                                timeout |-> IF waitForDuration(duration) # Infinity
                                            THEN "pending"
                                            ELSE "none",
                                resolved |-> 0,
                                rejected |-> 0])
            /\ last' = NoEmit
    /\ UNCHANGED eventsSuspended
    /\ UNCHANGED chanVars
    /\ UNCHANGED midiVars

(* The timeout of a waitFor call fires.  It was set after the timer of the
   listener, with the same delay, so it fires after it. *)
WaitForTimeoutFires ==
    /\ \E k \in DOMAIN waits :
        /\ waits[k].timeout = "pending"
        /\ listeners[waits[k].listener].timer = "fired"
        /\ eventMap' = remove(eventMap, listeners, waits[k].listener)
        /\ waits' = [waits EXCEPT ![k].timeout = "fired",
                                  ![k].promise = settle(@, "rejected"),
                                  ![k].rejected = @ + 1]
        /\ last' = [NoEmit EXCEPT !.op = "timeout", !.order = <<waits[k].listener>>]
    /\ UNCHANGED <<listeners, eventsSuspended>>
    /\ UNCHANGED chanVars
    /\ UNCHANGED midiVars

\* EventEmitter.suspendEvent(event) and unsuspendEvent(event)
SetSuspended(event, flag) ==
    /\ listeners' = [id \in DOMAIN listeners |->
                        IF InSeq(id, getListeners(eventMap, event))
                        THEN [listeners[id] EXCEPT !.suspended = flag]
                        ELSE listeners[id]]
    /\ UNCHANGED <<eventMap, eventsSuspended>>
    /\ UNCHANGED waits
    /\ UNCHANGED chanVars
    /\ UNCHANGED midiVars

SuspendEvent ==
    \E event \in EventNames \cup {ANY_EVENT} :
        /\ SetSuspended(event, TRUE)
        /\ last' = NoEmit

UnsuspendEvent ==
    \E event \in EventNames \cup {ANY_EVENT} :
        /\ SetSuspended(event, FALSE)
        /\ last' = NoEmit

\* An assignment to EventEmitter.eventsSuspended.
SetEventsSuspended ==
    /\ \E flag \in BOOLEAN : eventsSuspended' = flag
    /\ last' = NoEmit
    /\ UNCHANGED <<eventMap, listeners>>
    /\ UNCHANGED waits
    /\ UNCHANGED chanVars
    /\ UNCHANGED midiVars

\* EventEmitter.emit(event) for a regular event name.
Emit ==
    /\ \A id \in DOMAIN listeners : listeners[id].count < MaxCount
    /\ \E event \in EventNames :
        LET r == emit(eventMap, listeners, eventsSuspended, event)
        IN  /\ eventMap' = r.map
            /\ listeners' = r.lst
            /\ last' = Op("emit", event, r)
            /\ waits' = afterEmit(waits, r.invoked)
    /\ UNCHANGED eventsSuspended
    /\ UNCHANGED chanVars
    /\ UNCHANGED midiVars

\* EventEmitter.removeListener(event, callback, {context, remaining})
RemoveListener ==
    /\ \E event \in EventNames \cup {ANY_EVENT}, callback \in Callbacks \cup {"undefined"},
          context \in ContextOptions, remaining \in RemainingOptions :
        /\ eventMap' = removeListener(eventMap, listeners, event, callback,
                                      [context |-> context, remaining |-> remaining])
        /\ last' = NoEmit
    /\ UNCHANGED <<listeners, eventsSuspended>>
    /\ UNCHANGED waits
    /\ UNCHANGED chanVars
    /\ UNCHANGED midiVars

(* EventEmitter.removeListener(event, callback) called without options: the
   error it throws, "none" when it returns.  The filter reads
   options.remaining for a listener that the callback test does not keep, and
   options is undefined. *)
removeListener_throws(map, lst, event, callback) ==
    IF /\ event \in DOMAIN map
       /\ \E i \in 1 .. Len(map[event]) :
              callback = "undefined" \/ lst[map[event][i]].callback = callback
    THEN "TypeError"
    ELSE "none"

\* EventEmitter.removeListener(event): only the event is given.
RemoveListenersOfEvent ==
    /\ \E event \in EventNames \cup {ANY_EVENT} :
        LET raised == removeListener_throws(eventMap, listeners, event, "undefined")
        IN  /\ eventMap' = IF raised = "none"
                           THEN removeListener(eventMap, listeners, event, "undefined",
                                               [context |-> "undefined",
                                                remaining |-> Undefined])
                           ELSE eventMap
            /\ last' = [NoEmit EXCEPT !.op = "removeListener(event)", !.event = event,
                                      !.thrown = (raised # "none")]
    /\ UNCHANGED <<listeners, eventsSuspended>>
    /\ UNCHANGED waits
    /\ UNCHANGED chanVars
    /\ UNCHANGED midiVars

\* The values of options.context given to addListener and to removeListener.
GivenContexts == {"undefined", "c"}

\* The values of options.remaining given to addListener here (Undefined: not given).
GivenCounts == {Undefined, 2}

\* The values of options.remaining given to removeListener.
RemovalCounts == {Undefined, 0, 1, 2}

\* EventEmitter.addListener(event, callback, {context, remaining}), with a context or without.
AddListenerWithContext ==
    /\ Len(listeners) < MaxListeners
    /\ \E event \in EventNames, callback \in Callbacks,
          context \in GivenContexts, remaining \in GivenCounts :
        LET id == Len(listeners) + 1
            listener == Listener(event, callback,
                                 [context |-> context, remaining |-> remaining])
        IN  /\ listeners' = Append(listeners, listener)
            /\ eventMap' = [k \in DOMAIN eventMap \cup {event} |->
                               IF k = event
                               THEN Append(getListeners(eventMap, event), id)
                               ELSE eventMap[k]]
            /\ last' = NoEmit
    /\ UNCHANGED eventsSuspended
    /\ UNCHANGED waits
    /\ UNCHANGED chanVars
    /\ UNCHANGED midiVars

\* Recorded after removeListener(event, callback, options): the arguments of the call.
RemovalOp(event, callback, options) ==
    [op |-> "removeListener(criteria)", event |-> event, order |-> <<>>, invoked |-> <<>>,
     returned |-> ReturnsUndefined, thrown |-> FALSE,
     any |-> <<>>, specific |-> <<>>, suspended |-> FALSE,
     callback |-> callback, options |-> options]

(* EventEmitter.removeListener(event, callback, {context, remaining}), each of
   callback, context and remaining given or left undefined. *)
RemoveMatching ==
    /\ \E event \in EventNames, callback \in Callbacks \cup {"undefined"},
          context \in GivenContexts, remaining \in RemovalCounts :
        LET options == [context |-> context, remaining |-> remaining]
        IN  /\ eventMap' = removeListener(eventMap, listeners, event, callback, options)
            /\ last' = RemovalOp(event, callback, options)
    /\ UNCHANGED <<listeners, eventsSuspended>>
    /\ UNCHANGED waits
    /\ UNCHANGED chanVars
    /\ UNCHANGED midiVars

\* EventEmitter.hasListener(event), with no callback given.
hasListener(map, event) == event \in DOMAIN map /\ Len(map[event]) > 0

\* EventEmitter.getListenerCount(event): this.getListeners(event).length
getListenerCount(map, event) == Len(getListeners(map, event))

\* get EventEmitter.eventNames: Object.keys(this.eventMap)
eventNames(map) == DOMAIN map

\* get EventEmitter.eventCount: Object.keys(this.eventMap).length
eventCount(map) == Cardinality(DOMAIN map)

\* EventEmitter.removeListener() without arguments: every listener is removed.
RemoveAllListeners ==
    /\ eventMap' = <<>>
    /\ last' = NoEmit
    /\ UNCHANGED <<listeners, eventsSuspended>>
    /\ UNCHANGED waits
    /\ UNCHANGED chanVars
    /\ UNCHANGED midiVars

----------------------------------------------------------------------------
(* WebMidi: enable() and disable() *)

\* Ports of the host: the odd ones are inputs, the even ones outputs.
MaxPorts == 2

Ports == 1 .. MaxPorts
InputPorts == {p \in Ports : p % 2 = 1}
OutputPorts == {p \in Ports : p % 2 = 0}

\* The events of WebMidi that listeners are registered for.
WebMidiEventNames == {"enabled", "disabled"}

\* The elements of a set of ports in the order the interface lists them.
RECURSIVE InOrder(_)
InOrder(ports) ==
    IF ports = {}
    THEN <<>>
    ELSE LET p == CHOOSE x \in ports : \A y \in ports : x <= y
         IN  <<p>> \o InOrder(ports \ {p})

\* The elements of a sequence, last first.
RECURSIVE Reversed(_)
Reversed(seq) == IF seq = <<>> THEN <<>> ELSE Append(Reversed(Tail(seq)), Head(seq))

\* get enabled(): this.interface !== null
enabled == interface # "null"

\* One step of a call, as the history variable log keeps it.
Step(name, port) == [step |-> name, port |-> port]

\* No call made yet.
NoCall == [op |-> "none", pc |-> "idle", callback |-> FALSE, awaited |-> {}, outcome |-> "none"]

\* Mutant: the stash is not searched, a new object is made for every port added.
stashed_Never(stash, port) == FALSE

\* this._disconnectedInputs.find(input => input._midiInput === nInput)
stashed(stash, port) == InSeq(port, stash)

(* WebMidi._updateInputs with the lists given: the objects no longer reported
   are stashed (the loop runs from the end of the list), the reported ports
   without an object get the stashed object or a new one, which is opened.
   created lists the ports a new object was made for. *)
_updateInputs(list, stash, ports) ==
    LET kept == SelectSeq(list, LAMBDA x : x \in ports)
        gone == SelectSeq(list, LAMBDA x : x \notin ports)
        added == SelectSeq(InOrder(ports), LAMBDA x : ~InSeq(x, kept))
        held == stash \o Reversed(gone)
    IN  [list |-> kept \o added, stash |-> held, opened |-> added,
         created |-> SelectSeq(added, LAMBDA x : ~stashed(held, x))]

\* WebMidi._updateOutputs: the same for the outputs.
_updateOutputs(list, stash, ports) ==
    LET kept == SelectSeq(list, LAMBDA x : x \in ports)
        gone == SelectSeq(list, LAMBDA x : x \notin ports)
        added == SelectSeq(InOrder(ports), LAMBDA x : ~InSeq(x, kept))
        held == stash \o Reversed(gone)
    IN  [list |-> kept \o added, stash |-> held, opened |-> added,
         created |-> SelectSeq(added, LAMBDA x : ~stashed(held, x))]

\* The octaveOffset of an Input object just made.
NewPortOctaveOffset == 0

(* The objects after a list update: the ports in created have a new object,
   with the settings of a new object; the other objects are left as they are. *)
madeBy(created) == {created[i] : i \in 1 .. Len(created)}
settingsAfter(settings, created) ==
    [p \in DOMAIN settings |->
        IF p \in madeBy(created) THEN NewPortOctaveOffset ELSE settings[p]]

InitWebMidi ==
    /\ interface = "null"
    /\ validation = TRUE
    /\ reported = {}
    /\ inputs = <<>>
    /\ outputs = <<>>
    /\ disconnectedInputs = <<>>
    /\ disconnectedOutputs = <<>>
    /\ portStatus = [p \in Ports |-> "none"]
    /\ call = NoCall
    /\ log = <<>>
    /\ portOctaveOffset = [p \in Ports |-> NewPortOctaveOffset]
    /\ made = {}

\* this.emit(event, ...) on WebMidi, which is an EventEmitter.
WebMidiEmit(event) ==
    LET r == emit(eventMap, listeners, eventsSuspended, event)
    IN  /\ eventMap' = r.map
        /\ listeners' = r.lst
        /\ last' = Op("emit", event, r)

\* WebMidi.addListener(event, callback, {}) for one of the events of WebMidi.
AddWebMidiListener ==
    /\ Len(listeners) < MaxListeners
    /\ \E event \in WebMidiEventNames :
        LET id == Len(listeners) + 1
            listener == Listener(event, "f", [context |-> "undefined", remaining |-> Undefined])
        IN  /\ listeners' = Append(listeners, listener)
            /\ eventMap' = [k \in DOMAIN eventMap \cup {event} |->
                               IF k = event
                               THEN Append(getListeners(eventMap, event), id)
                               ELSE eventMap[k]]
            /\ last' = NoEmit
    /\ UNCHANGED eventsSuspended
    /\ UNCHANGED waits
    /\ UNCHANGED chanVars
    /\ UNCHANGED midiVars

\* The steps logged for the ports a list update opens, in order.
OpenSteps(opened) == [i \in 1 .. Len(opened) |-> Step("open", opened[i])]

\* Mutant: options.callback is never executed.
CallbackStep_Never(callback, name) == <<>>

\* options.callback, when it is a function, is executed.
CallbackStep(callback, name) == IF callback THEN <<Step(name, 0)>> ELSE <<>>

\* No listener has been executed MaxCount times: a new call may be made.
MayCall ==
    /\ call.pc \in {"idle", "done"}
    /\ \A id \in DOMAIN listeners : listeners[id].count < MaxCount

(* WebMidi.enable(options) up to its first await.  With validation on, the
   backwards-compatibility block reads legacy, a name declared nowhere: the
   call ends with a ReferenceError.  Otherwise an enabled WebMidi executes
   the callback and resolves, and a disabled one requests MIDI access. *)
EnableCall ==
    /\ MayCall
    /\ \E v \in BOOLEAN, callback \in BOOLEAN :
        /\ validation' = v
        /\ IF v
           THEN /\ call' = [op |-> "enable", pc |-> "done", callback |-> callback,
                            awaited |-> {}, outcome |-> "rejected"]
                /\ log' = <<Step("ReferenceError", 0)>>
           ELSE IF enabled
           THEN /\ call' = [op |-> "enable", pc |-> "done", callback |-> callback,
                            awaited |-> {}, outcome |-> "fulfilled"]
                /\ log' = CallbackStep(callback, "callback")
                              \o <<Step("fulfilled with undefined", 0)>>
           ELSE /\ call' = [op |-> "enable", pc |-> "requesting", callback |-> callback,
                            awaited |-> {}, outcome |-> "pending"]
                /\ log' = <<Step("requestMIDIAccess", 0)>>
    /\ UNCHANGED <<interface, reported, inputs, outputs, disconnectedInputs,
                   disconnectedOutputs, portStatus>>
    /\ UNCHANGED emitterVars
    /\ UNCHANGED objectVars
    /\ UNCHANGED chanVars

(* requestMIDIAccess is granted: enable() sets the interface, emits
   'midiaccessgranted', and updates the lists of inputs and outputs, which
   creates the port objects and calls open() on each; it then awaits the opens. *)
AccessGranted ==
    /\ call.op = "enable" /\ call.pc = "requesting"
    /\ \E ports \in SUBSET Ports :
        LET ui == _updateInputs(inputs, disconnectedInputs, ports \cap InputPorts)
            uo == _updateOutputs(outputs, disconnectedOutputs, ports \cap OutputPorts)
            opened == ui.opened \o uo.opened
        IN  /\ reported' = ports
            /\ interface' = "MIDIAccess"
            /\ WebMidiEmit("midiaccessgranted")
            /\ inputs' = ui.list
            /\ disconnectedInputs' = ui.stash
            /\ outputs' = uo.list
            /\ disconnectedOutputs' = uo.stash
            /\ portStatus' = [p \in Ports |->
                                 IF InSeq(p, opened) THEN "opening" ELSE portStatus[p]]
            /\ made' = madeBy(ui.created \o uo.created)
            /\ portOctaveOffset' = settingsAfter(portOctaveOffset, ui.created \o uo.created)
            /\ call' = [call EXCEPT !.pc = "opening",
                                     !.awaited = {opened[i] : i \in 1 .. Len(opened)}]
            /\ log' = log \o <<Step("emit midiaccessgranted", 0)>> \o OpenSteps(opened)
    /\ UNCHANGED <<validation, eventsSuspended>>
    /\ UNCHANGED waits
    /\ UNCHANGED chanVars

(* requestMIDIAccess is refused: enable() emits 'error', executes the callback
   with the error and rejects. *)
AccessDenied ==
    /\ call.op = "enable" /\ call.pc = "requesting"
    /\ WebMidiEmit("error")
    /\ call' = [call EXCEPT !.pc = "done", !.outcome = "rejected"]
    /\ log' = log \o <<Step("access denied", 0), Step("emit error", 0)>>
                  \o CallbackStep(call.callback, "callback(err)")
                  \o <<Step("rejected", 0)>>
    /\ UNCHANGED <<interface, validation, reported, inputs, outputs, disconnectedInputs,
                   disconnectedOutputs, portStatus, eventsSuspended>>
    /\ UNCHANGED waits
    /\ UNCHANGED objectVars
    /\ UNCHANGED chanVars

\* The promise of open() of a port object is fulfilled.
PortOpened ==
    /\ \E p \in Ports :
        /\ portStatus[p] = "opening"
        /\ portStatus' = [portStatus EXCEPT ![p] = "open"]
        /\ log' = IF call.pc = "opening" THEN Append(log, Step("open done", p)) ELSE log
    /\ UNCHANGED <<interface, validation, reported, inputs, outputs, disconnectedInputs,
                   disconnectedOutputs, call>>
    /\ UNCHANGED emitterVars
    /\ UNCHANGED objectVars
    /\ UNCHANGED chanVars

\* The promise of open() of a port object is rejected.
PortOpenFails ==
    /\ \E p \in Ports :
        /\ portStatus[p] = "opening"
        /\ portStatus' = [portStatus EXCEPT ![p] = "failed"]
        /\ log' = IF call.pc = "opening" THEN Append(log, Step("open failed", p)) ELSE log
    /\ UNCHANGED <<interface, validation, reported, inputs, outputs, disconnectedInputs,
                   disconnectedOutputs, call>>
    /\ UNCHANGED emitterVars
    /\ UNCHANGED objectVars
    /\ UNCHANGED chanVars

\* Mutant: enable() does not wait for the open() promises.
opensSettled_NotAwaited(awaited, status) == TRUE

\* await this._updateInputsAndOutputs(): every open() awaited is fulfilled.
opensSettled(awaited, status) == \A p \in awaited : status[p] = "open"

(* The awaited opens are all fulfilled: enable() emits 'enabled', executes
   the callback and resolves with the WebMidi object. *)
EnableSucceeds ==
    /\ call.op = "enable" /\ call.pc = "opening"
    /\ opensSettled(call.awaited, portStatus)
    /\ WebMidiEmit("enabled")
    /\ call' = [call EXCEPT !.pc = "done", !.outcome = "fulfilled"]
    /\ log' = log \o <<Step("emit enabled", 0)>> \o CallbackStep(call.callback, "callback")
                  \o <<Step("fulfilled with WebMidi", 0)>>
    /\ UNCHANGED <<interface, validation, reported, inputs, outputs, disconnectedInputs,
                   disconnectedOutputs, portStatus, eventsSuspended>>
    /\ UNCHANGED waits
    /\ UNCHANGED objectVars
    /\ UNCHANGED chanVars

(* One of the awaited opens is rejected: enable() emits 'error', executes the
   callback with the error and rejects. *)
EnableFails ==
    /\ call.op = "enable" /\ call.pc = "opening"
    /\ \E p \in call.awaited : portStatus[p] = "failed"
    /\ WebMidiEmit("error")
    /\ call' = [call EXCEPT !.pc = "done", !.outcome = "rejected"]
    /\ log' = log \o <<Step("emit error", 0)>> \o CallbackStep(call.callback, "callback(err)")
                  \o <<Step("rejected", 0)>>
    /\ UNCHANGED <<interface, validation, reported, inputs, outputs, disconnectedInputs,
                   disconnectedOutputs, portStatus, eventsSuspended>>
    /\ UNCHANGED waits
    /\ UNCHANGED objectVars
    /\ UNCHANGED chanVars

\* The ports whose objects are in the two lists.
Listed == {inputs[i] : i \in 1 .. Len(inputs)} \cup {outputs[i] : i \in 1 .. Len(outputs)}

(* WebMidi.disable() up to its await: _destroyInputsAndOutputs calls destroy()
   on every input, then on every output. *)
DisableCall ==
    /\ MayCall
    /\ call' = [op |-> "disable", pc |-> "destroying", callback |-> FALSE,
                awaited |-> Listed, outcome |-> "pending"]
    /\ portStatus' = [p \in Ports |-> IF p \in Listed THEN "destroying" ELSE portStatus[p]]
    /\ log' = [i \in 1 .. Len(inputs) |-> Step("destroy", inputs[i])]
                  \o [i \in 1 .. Len(outputs) |-> Step("destroy", outputs[i])]
    /\ UNCHANGED <<interface, validation, reported, inputs, outputs, disconnectedInputs,
                   disconnectedOutputs>>
    /\ UNCHANGED emitterVars
    /\ UNCHANGED objectVars
    /\ UNCHANGED chanVars

\* The promise of destroy() of a port object is fulfilled.
PortDestroyed ==
    /\ \E p \in Ports :
        /\ portStatus[p] = "destroying"
        /\ portStatus' = [portStatus EXCEPT ![p] = "destroyed"]
        /\ log' = Append(log, Step("destroyed", p))
    /\ UNCHANGED <<interface, validation, reported, inputs, outputs, disconnectedInputs,
                   disconnectedOutputs, call>>
    /\ UNCHANGED emitterVars
    /\ UNCHANGED objectVars
    /\ UNCHANGED chanVars

\* Mutant: disable() does not wait for the destroy() promises.
destroysSettled_NotAwaited(awaited, status) == TRUE

\* Promise.all(promises) of _destroyInputsAndOutputs is fulfilled.
destroysSettled(awaited, status) == \A p \in awaited : status[p] = "destroyed"

(* Every destroy() is fulfilled: the lists are emptied, then the interface is
   set to null, 'disabled' is emitted, every listener of WebMidi is removed and
   the promise of disable() resolves. *)
DisableSucceeds ==
    /\ call.op = "disable" /\ call.pc = "destroying"
    /\ destroysSettled(call.awaited, portStatus)
    /\ inputs' = <<>>
    /\ outputs' = <<>>
    /\ interface' = "null"
    /\ LET r == emit(eventMap, listeners, eventsSuspended, "disabled")
       IN  /\ listeners' = r.lst
           /\ last' = Op("emit", "disabled", r)
           /\ eventMap' = <<>>
    /\ call' = [call EXCEPT !.pc = "done", !.outcome = "fulfilled"]
    /\ log' = log \o <<Step("emit disabled", 0), Step("removeListener", 0),
                        Step("fulfilled with undefined", 0)>>
    /\ UNCHANGED <<validation, reported, disconnectedInputs, disconnectedOutputs,
                   portStatus, eventsSuspended>>
    /\ UNCHANGED waits
    /\ UNCHANGED objectVars
    /\ UNCHANGED chanVars

----------------------------------------------------------------------------
(* Specifications *)

Init == InitChannel /\ InitEmitter /\ InitWebMidi

NextChannel == ProcessMidiMessageEvent \/ Return

SpecChannel == Init /\ [][NextChannel]_vars

\* The channel given messages of any bytes, and asked for controller names.
NextLookup ==
    \/ ProcessMidiMessageEvent
    \/ ProcessMalformedMessage
    \/ GetCcNameByNumber
    \/ Return

SpecLookup == Init /\ [][NextLookup]_vars

\* The octaveOffset properties assigned values of any kind.
NextSetters ==
    \/ SetOctaveOffset
    \/ SetOctaveOffsetUnparsable
    \/ SetInputOctaveOffset
    \/ SetWebMidiOctaveOffset
    \/ Return

SpecSetters == Init /\ [][NextSetters]_vars

\* Pitch-bend messages of every pair of data bytes.
NextPitchBend == ProcessPitchBendMessage \/ Return

SpecPitchBend == Init /\ [][NextPitchBend]_vars

\* The 7-bit conversions applied, and notes built with raw velocities.
NextNote == ConvertThereAndBack \/ NewNote \/ Return

SpecNote == Init /\ [][NextNote]_vars

\* Note messages handled under octave offsets of the channel and of its input.
NextOffsets ==
    \/ SetOctaveOffset
    \/ SetInputOctaveOffset
    \/ ProcessNoteMessage
    \/ Return

SpecOffsets == Init /\ [][NextOffsets]_vars

(* The emitter taken alone: no message is delivered, so one channel stands for
   all of them. *)
InitEmitterAlone == Init /\ number = 1

NextEmitter ==
    \/ AddListener
    \/ AddOneTimeListener
    \/ Emit
    \/ RemoveListener
    \/ RemoveAllListeners

SpecEmitter == InitEmitterAlone /\ [][NextEmitter]_vars

\* The emitter with its listeners and itself suspended and resumed.
NextSuspension ==
    \/ AddSameListener
    \/ SuspendEvent
    \/ UnsuspendEvent
    \/ SetEventsSuspended
    \/ Emit

SpecSuspension == InitEmitterAlone /\ [][NextSuspension]_vars

\* The registry of listeners, filled and emptied event by event.
NextRegistry ==
    \/ AddListener
    \/ RemoveListenersOfEvent

SpecRegistry == InitEmitterAlone /\ [][NextRegistry]_vars

\* Events awaited with waitFor, emitted, and timed out.
NextWaitFor ==
    \/ AddSameListener
    \/ WaitFor
    \/ Emit
    \/ TimerFires
    \/ WaitForTimeoutFires

SpecWaitFor == InitEmitterAlone /\ [][NextWaitFor]_vars

\* The emitter with callbacks that remove listeners or throw while emit() runs.
NextCallbacks ==
    \/ AddActingListener
    \/ Emit

SpecCallbacks == InitEmitterAlone /\ [][NextCallbacks]_vars

\* The emitter with listeners that a timer removes after their duration.
NextTimers ==
    \/ AddListener
    \/ AddTimedListener
    \/ RemoveListener
    \/ TimerFires

SpecTimers == InitEmitterAlone /\ [][NextTimers]_vars

----------------------------------------------------------------------------
(* WebMidi: the statechange events of the interface *)

\* The events WebMidi emits for a port that comes or goes.
PortEventNames == {"connected", "disconnected", "portschanged"}

\* What a MIDIPort reports as its state and as its connection.
PortStates == {"connected", "disconnected"}
PortConnections == {"open", "closed", "pending"}

\* Objects the lists of disconnected ports may hold: nothing is ever taken out of them.
MaxStashed == 2

\* WebMidi.addListener(event, callback, {}) for one of the port events.
AddPortListener ==
    /\ Len(listeners) < MaxListeners
    /\ \E event \in PortEventNames :
        LET id == Len(listeners) + 1
            listener == Listener(event, "f", [context |-> "undefined", remaining |-> Undefined])
        IN  /\ listeners' = Append(listeners, listener)
            /\ eventMap' = [k \in DOMAIN eventMap \cup {event} |->
                               IF k = event
                               THEN Append(getListeners(eventMap, event), id)
                               ELSE eventMap[k]]
            /\ last' = NoEmit
    /\ UNCHANGED eventsSuspended
    /\ UNCHANGED waits
    /\ UNCHANGED chanVars
    /\ UNCHANGED midiVars

(* getInputById(id, options) and getOutputById(id, options) of an enabled
   WebMidi with a non-empty id: options has no default value, and
   options.disconnected is read. *)
getInputById_throws(options) == IF options = "undefined" THEN "TypeError" ELSE "none"
getOutputById_throws(options) == IF options = "undefined" THEN "TypeError" ELSE "none"

\* e.port.state === "connected" && e.port.connection === "open"
isConnectedAndOpen(state, connection) == state = "connected" /\ connection = "open"

\* e.port.state === "disconnected" && e.port.connection === "pending"
isDisconnectedAndPending(state, connection) == state = "disconnected" /\ connection = "pending"

(* The exception that ends _onInterfaceStateChange before it emits: the
   branch of a connected port looks the port up without options, the branch
   of a disconnected one with {disconnected: true}. *)
_onInterfaceStateChange_throws(port, state, connection) ==
    IF isConnectedAndOpen(state, connection)
    THEN IF port \in OutputPorts
         THEN getOutputById_throws("undefined")
         ELSE getInputById_throws("undefined")
    ELSE IF isDisconnectedAndPending(state, connection)
    THEN IF port \in InputPorts
         THEN getInputById_throws("{disconnected: true}")
         ELSE getOutputById_throws("{disconnected: true}")
    ELSE "none"

\* The events _onInterfaceStateChange emits, in order, when nothing is thrown.
stateChangeEvents(state, connection) ==
    IF isConnectedAndOpen(state, connection) THEN <<"connected", "portschanged">>
    ELSE IF isDisconnectedAndPending(state, connection) THEN <<"disconnected", "portschanged">>
    ELSE <<>>

(* The interface fires statechange for a port, between two calls of an
   enabled WebMidi: the lists of inputs and outputs are updated from what the
   interface reports now (a connected port is reported, a disconnected one is
   not), then the events of the matching branch are emitted.  log keeps the
   state and the connection of the port, then what the handler did. *)
OnInterfaceStateChangeOf(connections) ==
    /\ MayCall
    /\ enabled
    /\ \E port \in Ports, state \in PortStates, connection \in connections :
        LET ports == IF state = "connected" THEN reported \cup {port} ELSE reported \ {port}
            ui == _updateInputs(inputs, disconnectedInputs, ports \cap InputPorts)
            uo == _updateOutputs(outputs, disconnectedOutputs, ports \cap OutputPorts)
            opened == ui.opened \o uo.opened
            raised == _onInterfaceStateChange_throws(port, state, connection)
            events == IF raised = "none" THEN stateChangeEvents(state, connection) ELSE <<>>
            r1 == emit(eventMap, listeners, eventsSuspended, events[1])
            r2 == emit(r1.map, r1.lst, eventsSuspended, events[2])
        IN  /\ Len(ui.stash) <= MaxStashed
            /\ Len(uo.stash) <= MaxStashed
            /\ reported' = ports
            /\ inputs' = ui.list
            /\ disconnectedInputs' = ui.stash
            /\ outputs' = uo.list
            /\ disconnectedOutputs' = uo.stash
            /\ portStatus' = [p \in Ports |->
                                 IF InSeq(p, opened) THEN "opening" ELSE portStatus[p]]
            /\ made' = madeBy(ui.created \o uo.created)
            /\ portOctaveOffset' = settingsAfter(portOctaveOffset, ui.created \o uo.created)
            /\ IF events = <<>>
               THEN /\ UNCHANGED <<eventMap, listeners>>
                    /\ last' = NoEmit
               ELSE /\ eventMap' = r2.map
                    /\ listeners' = r2.lst
                    /\ last' = Op("emit", events[2], r2)
            /\ call' = [op |-> "statechange", pc |-> "done", callback |-> FALSE,
                        awaited |-> {},
                        outcome |-> IF raised = "none" THEN "returned" ELSE "thrown"]
            /\ log' = <<Step(state, port), Step(connection, port)>>
                          \o (IF raised = "none" THEN <<>> ELSE <<Step(raised, port)>>)
                          \o (IF events = <<>>
                              THEN <<>>
                              ELSE <<Step(events[1], port), Step(events[2], port)>>)
    /\ UNCHANGED <<interface, validation, eventsSuspended>>
    /\ UNCHANGED waits
    /\ UNCHANGED chanVars

_onInterfaceStateChange == OnInterfaceStateChangeOf(PortConnections)

\* The statechange of a port that is reported, or no longer reported, and not open.
PortComesOrGoes == OnInterfaceStateChangeOf({"closed"})

\* The values given to the octaveOffset of an Input.
PortOffsetValues == {0, 1}

(* input.octaveOffset = value on one of WebMidi.inputs, between two calls:
   the setting is kept by the Input object. *)
SetPortOctaveOffset ==
    /\ MayCall
    /\ enabled
    /\ \E i \in 1 .. Len(inputs), value \in PortOffsetValues :
        /\ portOctaveOffset[inputs[i]] # value
        /\ portOctaveOffset' = [portOctaveOffset EXCEPT ![inputs[i]] = value]
    /\ call' = [op |-> "set octaveOffset", pc |-> "done", callback |-> FALSE,
                awaited |-> {}, outcome |-> "returned"]
    /\ log' = <<>>
    /\ UNCHANGED <<interface, validation, reported, inputs, outputs, disconnectedInputs,
                   disconnectedOutputs, portStatus, made>>
    /\ UNCHANGED emitterVars
    /\ UNCHANGED chanVars

\* WebMidi enabled and disabled, with listeners on its events.
NextWebMidi ==
    \/ AddWebMidiListener
    \/ EnableCall
    \/ AccessGranted
    \/ AccessDenied
    \/ PortOpened
    \/ PortOpenFails
    \/ EnableSucceeds
    \/ EnableFails
    \/ DisableCall
    \/ PortDestroyed
    \/ DisableSucceeds

SpecWebMidi == InitEmitterAlone /\ [][NextWebMidi]_vars

\* WebMidi enabled, with ports that come and go and listeners on the port events.
NextStateChange ==
    \/ AddPortListener
    \/ EnableCall
    \/ AccessGranted
    \/ PortOpened
    \/ EnableSucceeds
    \/ _onInterfaceStateChange

\* The emitter with callbacks that call emit() while emit() runs.
NextReentrant ==
    \/ AddReentrantListener
    \/ Emit

SpecReentrant == InitEmitterAlone /\ [][NextReentrant]_vars

\* An emitter whose listeners are removed by criteria.
NextRemoval ==
    \/ AddListenerWithContext
    \/ Emit
    \/ RemoveMatching

SpecRemoval == InitEmitterAlone /\ [][NextRemoval]_vars

SpecStateChange == InitEmitterAlone /\ [][NextStateChange]_vars

\* WebMidi enabled, with ports that come and go and settings made on the inputs.
NextReconnect ==
    \/ EnableCall
    \/ AccessGranted
    \/ PortOpened
    \/ EnableSucceeds
    \/ PortComesOrGoes
    \/ SetPortOctaveOffset

SpecReconnect == InitEmitterAlone /\ [][NextReconnect]_vars

Next ==
    NextChannel \/ NextLookup \/ NextSetters \/ NextOffsets \/ NextPitchBend
        \/ NextNote \/ NextEmitter \/ NextRegistry \/ NextWaitFor \/ NextSuspension \/ NextCallbacks \/ NextTimers
        \/ NextWebMidi \/ NextStateChange \/ NextReconnect \/ NextRemoval
        \/ NextReentrant

Spec == Init /\ [][Next]_vars

----------------------------------------------------------------------------
(* InputChannel: properties *)

Handled(type) == phase = "handled" /\ message.type = type
Data1 == ByteAt(message.dataBytes, 1)
Data2 == ByteAt(message.dataBytes, 2)

\* The positions in emitted of the events that satisfy P.
Positions(P(_)) == {i \in 1 .. Len(emitted) : P(emitted[i])}
\* The events derived from the message: all but the 'midimessage' event.
IsTyped(ev) == ev.type # "midimessage"
Named(name, ev) == ev.type = name /\ ev.sub = Undefined
ChannelModeEventNames ==
    {"allsoundoff", "resetallcontrollers", "localcontrol", "allnotesoff",
     "omnimode", "monomode"}
IsChannelModeEvent(ev) == ev.type \in ChannelModeEventNames

(* C1 as stated: a noteon message with velocity byte 0 is emitted as an event
   named 'noteoff', not 'noteon', whose value is 0. *)
C1_NoteOnZeroEmitsNoteOff ==
    (Handled("noteon") /\ Data2 = 0) =>
        /\ \E i \in 1 .. Len(emitted) :
              /\ Named("noteoff", emitted[i])
              /\ emitted[i].value = FloatValue(0, 127)
        /\ \A i \in 1 .. Len(emitted) : emitted[i].type # "noteon"

(* C2 as stated: a control change for controller n in 0..119 emits 'controlchange'
   and 'controlchange-controller<n>', each exactly once, with the same value and
   rawValue. *)
C2_ControllerSubEvent ==
    (Handled("controlchange") /\ Data1 \in 0 .. 119) =>
        \E i, j \in 1 .. Len(emitted) :
            /\ Positions(LAMBDA ev : Named("controlchange", ev)) = {i}
            /\ Positions(LAMBDA ev : ev.type = "controlchange-controller"
                                       /\ ev.sub = Data1) = {j}
            /\ emitted[i].value = emitted[j].value
            /\ emitted[i].rawValue = emitted[j].rawValue

\* The parameter-number events emitted while the entries from..to of the trail were handled.
TrailEvents(from, to) ==
    LET RECURSIVE Gather(_)
        Gather(i) == IF i > to THEN <<>> ELSE ccTrail[i].pn \o Gather(i + 1)
    IN  Gather(from)
\* The control changes handled last are exactly those of seq.
EndsWith(seq) ==
    /\ Len(ccTrail) >= Len(seq)
    /\ TrailPairs(Suffix(ccTrail, Len(seq))) = seq
OneNrpnEvent(evs, paramNumber, rawValue) ==
    /\ Len(evs) = 1
    /\ evs[1].type \in NrpnEventNames
    /\ evs[1].controller.number = paramNumber
    /\ evs[1].rawValue = rawValue

(* C3 as stated: after CC99=3, CC98=12, CC6=64, CC38=0, received in this order
   with no other control change in between, exactly one nrpn-family event has
   been emitted for them, with parameter number 396 and value 64. *)
C3_NrpnSequenceEmitsOnce ==
    EndsWith(CompleteSequence) =>
        OneNrpnEvent(TrailEvents((Len(ccTrail) - 4) + 1, Len(ccTrail)), 396, 64)

(* C4 as stated: after CC99=3 then CC6=64 no parameter-number event has been
   emitted, and a complete in-order sequence received next still yields exactly
   one event. *)
C4_BrokenSequenceAbandoned ==
    /\ TrailPairs(ccTrail) = BrokenStart => TrailEvents(1, 2) = <<>>
    /\ TrailPairs(ccTrail) = RecoverySequence =>
          /\ TrailEvents(1, 2) = <<>>
          /\ OneNrpnEvent(TrailEvents(3, 6), 396, 64)

\* The channel-mode event emitted for the message has this name and boolean value.
ChannelModeEventIs(name, b) ==
    \E i \in 1 .. Len(emitted) :
        /\ emitted[i].by = "_parseChannelModeMessage"
        /\ Named(name, emitted[i])
        /\ emitted[i].value = BoolValue(b)

(* C5: controller 124 emits 'omnimode' with value false, 125 'omnimode' with
   value true, 126 'monomode' with value false, 127 'monomode' with value true. *)
C5_ChannelModeAliasing ==
    Handled("controlchange") =>
        /\ Data1 = 124 => ChannelModeEventIs("omnimode", FALSE)
        /\ Data1 = 125 => ChannelModeEventIs("omnimode", TRUE)
        /\ Data1 = 126 => ChannelModeEventIs("monomode", FALSE)
        /\ Data1 = 127 => ChannelModeEventIs("monomode", TRUE)

C5_Witness ==
    /\ Handled("controlchange")
    /\ Data1 = 126
    /\ ChannelModeEventIs("monomode", FALSE)
    /\ number = NumChannels

(* C6: a control change for a controller in 120..127 emits the generic
   'controlchange' event and exactly one channel-mode event; for a controller in
   0..119 it emits no channel-mode event. *)
C6_ChannelModeOnlyFrom120 ==
    Handled("controlchange") =>
        /\ Data1 \in 120 .. 127 =>
              /\ Cardinality(Positions(LAMBDA ev : Named("controlchange", ev))) = 1
              /\ Cardinality(Positions(IsChannelModeEvent)) = 1
        /\ Data1 \in 0 .. 119 =>
              /\ Positions(IsChannelModeEvent) = {}
              /\ Positions(LAMBDA ev : ev.by = "_parseChannelModeMessage") = {}

C6_Witness ==
    /\ Handled("controlchange")
    /\ Data1 = 120
    /\ Cardinality(Positions(IsChannelModeEvent)) = 1
    /\ Cardinality(Positions(LAMBDA ev : Named("controlchange", ev))) = 1

ChannelVoiceTypes ==
    {"noteon", "noteoff", "keyaftertouch", "controlchange", "programchange",
     "channelaftertouch", "pitchbend"}

(* C7: every message handled yields at least one typed event, and a message of
   none of the seven channel-voice types is emitted as 'unknownmessage'. *)
C7_AlwaysEmitted ==
    phase = "handled" =>
        /\ Positions(IsTyped) # {}
        /\ message.type \notin ChannelVoiceTypes =>
              Positions(LAMBDA ev : Named("unknownmessage", ev)) # {}

C7_Witness ==
    /\ phase = "handled"
    /\ message.type \notin ChannelVoiceTypes
    /\ Positions(LAMBDA ev : Named("unknownmessage", ev)) # {}

----------------------------------------------------------------------------
(* EventEmitter: properties *)

\* The listener id is in the list of its event in eventMap.
Registered(id) == InSeq(id, getListeners(eventMap, listeners[id].event))

\* The last operation was an emit() that the emitter's flag did not cut short.
AfterEmit == last.op = "emit" /\ ~last.suspended

\* The listener id was given a finite number of executions.
Finite(id) == listeners[id].initial # Infinity

\* The number of times the listener id was executed by the last emit().
TimesInvoked(id) == Cardinality({i \in 1 .. Len(last.invoked) : last.invoked[i] = id})

\* The position of x in a sequence without repetition (0 when absent).
IndexOf(x, seq) == IF InSeq(x, seq) THEN CHOOSE i \in 1 .. Len(seq) : seq[i] = x ELSE 0

(* C21 as stated: looking up a control-change number outside 0..127 with
   getCcNameByNumber throws a RangeError, and handling an incoming message
   never throws, whatever its data bytes are. *)
C21_LookupThrowsParsingNever ==
    /\ (outcome.op = "getCcNameByNumber" /\ outcome.arg \notin 0 .. 127)
          => outcome.raised = "RangeError"
    /\ outcome.op = "_processMidiMessageEvent" => outcome.raised = "none"

(* C23: the Note of every noteon and noteoff event has the number of the
   message's note moved by 12 semitones for each octave of the sum of the
   channel's, the input's and WebMidi's octaveOffset, kept within 0..127; note
   60 under channel offset 1, input offset 1 and global offset 0 is number 84,
   identifier C6. *)
C23_OctaveOffsetComposition ==
    (Handled("noteon") \/ Handled("noteoff")) =>
        /\ Positions(IsTyped) # {}
        /\ \A i \in Positions(IsTyped) :
              LET moved == Data1
                             + (12 * (octaveOffset + inputOctaveOffset
                                        + webMidiOctaveOffset))
              IN  /\ moved < 0 => emitted[i].note.number = 0
                  /\ moved > 127 => emitted[i].note.number = 127
                  /\ moved \in 0 .. 127 => emitted[i].note.number = moved
                  /\ (Data1 = 60 /\ octaveOffset = 1 /\ inputOctaveOffset = 1
                        /\ webMidiOctaveOffset = 0)
                        => /\ emitted[i].note.number = 84
                           /\ emitted[i].note.identifier = [name |-> "C", octave |-> 6]

C23_Witness ==
    /\ Handled("noteon")
    /\ Data1 = 60
    /\ Data2 > 0
    /\ octaveOffset = 1
    /\ inputOctaveOffset = 1
    /\ webMidiOctaveOffset = 0
    /\ \E i \in Positions(IsTyped) :
          /\ emitted[i].note.number = 84
          /\ emitted[i].note.identifier = [name |-> "C", octave |-> 6]

(* C24: the event of a pitchbend message with data bytes data1, data2 in
   0..127 has rawValue = (data2<<7)+data1, within 0..16383, and value =
   (rawValue - 8192)/8192, at least -1 and below 1; data1 = 0, data2 = 64 give
   the value 0. *)
C24_PitchBendValue ==
    Handled("pitchbend") =>
        /\ Positions(IsTyped) # {}
        /\ \A i \in Positions(IsTyped) :
              LET ev == emitted[i]
              IN  /\ ev.type = "pitchbend"
                  /\ ev.rawValue = (Data2 * 128) + Data1
                  /\ ev.rawValue \in 0 .. 16383
                  /\ ev.value.kind = "float"
                  /\ ev.value.d = 8192
                  /\ ev.value.n = ev.rawValue - 8192
                  /\ -(ev.value.d) <= ev.value.n
                  /\ ev.value.n < ev.value.d
                  /\ (Data1 = 0 /\ Data2 = 64) => ev.value.n = 0

C24_Witness ==
    /\ Handled("pitchbend")
    /\ Data1 = 0
    /\ Data2 = 64
    /\ \E i \in Positions(IsTyped) :
          emitted[i].rawValue = 8192 /\ emitted[i].value.n = 0

(* C25 as stated: for every integer v in 0..127,
   fromFloatTo7Bit(from7bitToFloat(v)) is v, and a Note built with rawAttack
   (or rawRelease) = v is built and reports rawAttack (rawRelease) = v. *)
C25_SevenBitRoundTrip ==
    /\ outcome.op = "fromFloatTo7Bit(from7bitToFloat(v))" => outcome.read = outcome.arg
    /\ outcome.op = "new Note" => (outcome.raised = "none" /\ outcome.read = outcome.arg)

IsSetter(op) == op \in {"set InputChannel.octaveOffset", "set WebMidi.octaveOffset"}

(* C22 as stated: an assignment to octaveOffset, of an InputChannel or of
   WebMidi, of a value that does not parse as an integer throws a TypeError
   and leaves the stored offset as it was. *)
C22_UnparsableOffsetRejected ==
    [][(phase = "idle" /\ IsSetter(outcome'.op) /\ isNaN_parseInt(outcome'.arg))
          => /\ outcome'.raised = "TypeError"
             /\ octaveOffset' = octaveOffset
             /\ webMidiOctaveOffset' = webMidiOctaveOffset]_vars

----------------------------------------------------------------------------
(* C8 as stated: after an emit() on an emitter that is not suspended, every
   listener of the event's own list was executed before every listener of the
   ANY_EVENT list, and within each of the two lists the listeners were executed
   in the order of the list (the order of registration, a prepended listener
   going first as it asked).  The code walks the ANY_EVENT list first. *)
C8_SpecificBeforeAny ==
    AfterEmit =>
        \A i, j \in 1 .. Len(last.invoked) :
            LET x == last.invoked[i]
                y == last.invoked[j]
            IN  /\ (InSeq(x, last.specific) /\ InSeq(y, last.any)) => i < j
                /\ (InSeq(x, last.specific) /\ InSeq(y, last.specific)
                        /\ IndexOf(x, last.specific) < IndexOf(y, last.specific)) => i < j
                /\ (InSeq(x, last.any) /\ InSeq(y, last.any)
                        /\ IndexOf(x, last.any) < IndexOf(y, last.any)) => i < j

(* C9: a one-time listener (remaining 1, as addOneTimeListener sets it) is
   executed at most once over its life and is no longer registered once it has
   been executed; an emit() that reaches it executes it exactly once and leaves
   it unregistered, whatever other listeners share its event and callback. *)
C9_OneTimeListenerOnce ==
    /\ \A id \in DOMAIN listeners :
            listeners[id].initial = 1 =>
                /\ listeners[id].count <= 1
                /\ listeners[id].count = 1 => ~Registered(id)
    /\ AfterEmit =>
            \A id \in DOMAIN listeners :
                (listeners[id].initial = 1 /\ InSeq(id, last.order)
                        /\ ~listeners[id].suspended) =>
                    /\ TimesInvoked(id) = 1
                    /\ listeners[id].count = 1
                    /\ ~Registered(id)

\* Two one-time listeners of one event with one callback, both executed by one emit().
C9_Witness ==
    /\ AfterEmit
    /\ \E x, y \in DOMAIN listeners :
            /\ x # y
            /\ listeners[x].initial = 1 /\ listeners[y].initial = 1
            /\ listeners[x].event = listeners[y].event
            /\ listeners[x].callback = listeners[y].callback
            /\ TimesInvoked(x) = 1 /\ TimesInvoked(y) = 1
            /\ listeners[x].count = 1 /\ listeners[y].count = 1
            /\ ~Registered(x) /\ ~Registered(y)

(* C10 as stated: a listener registered with a finite remaining = N is executed
   by every emit() that reaches it while it is not suspended, is unregistered
   once it has been executed N times, and an emit() never unregisters it before
   its N-th execution.  The last part fails: the expiry of another listener of
   the same event with the same callback unregisters it early. *)
C10_RemovedAfterNthInvocation ==
    /\ \A id \in DOMAIN listeners :
            Finite(id) =>
                /\ listeners[id].count <= listeners[id].initial
                /\ listeners[id].count = listeners[id].initial => ~Registered(id)
    /\ AfterEmit =>
            \A id \in DOMAIN listeners :
                (Finite(id) /\ InSeq(id, last.order)) =>
                    /\ ~listeners[id].suspended => TimesInvoked(id) = 1
                    /\ ~Registered(id) => listeners[id].count = listeners[id].initial

(* C11: an emit() made while eventsSuspended is true calls no callback, of the
   event's listeners or of the ANY_EVENT listeners, and leaves every listener's
   remaining count, execution count and registration as they were. *)
C11_SuspendedEmitterSkipsAll ==
    [][(eventsSuspended /\ last'.op = "emit") =>
            /\ last'.invoked = <<>>
            /\ listeners' = listeners
            /\ eventMap' = eventMap]_vars

(* An emit() on a suspended emitter that holds a listener of the event and an
   ANY_EVENT listener, neither suspended, neither ever executed. *)
C11_Witness ==
    /\ last.op = "emit" /\ last.suspended
    /\ \E x, y \in DOMAIN listeners :
            /\ listeners[x].event = last.event /\ listeners[y].event = ANY_EVENT
            /\ Registered(x) /\ Registered(y)
            /\ ~listeners[x].suspended /\ ~listeners[y].suspended
            /\ listeners[x].count = 0 /\ listeners[y].count = 0

(* C12: an emit() on an emitter that is not suspended skips the listeners whose
   suspended flag is true, leaving their remaining count and execution count
   unchanged, and calls the callback of every other listener of the event and
   of ANY_EVENT that was registered when it started, once each. *)
C12_SuspendedListenerSkippedAlone ==
    [][(~eventsSuspended /\ last'.op = "emit") =>
            \A id \in DOMAIN listeners :
                InSeq(id, last'.order) =>
                    IF listeners[id].suspended
                    THEN /\ ~InSeq(id, last'.invoked)
                         /\ listeners'[id].remaining = listeners[id].remaining
                         /\ listeners'[id].count = listeners[id].count
                    ELSE /\ Cardinality({i \in 1 .. Len(last'.invoked) :
                                            last'.invoked[i] = id}) = 1
                         /\ listeners'[id].count = listeners[id].count + 1]_vars

(* An emit() that walked two listeners of one event: one suspended, which it
   did not execute, and one not suspended, which it executed. *)
C12_Witness ==
    /\ AfterEmit
    /\ \E x, y \in DOMAIN listeners :
            /\ InSeq(x, last.order) /\ InSeq(y, last.order)
            /\ listeners[x].event = listeners[y].event
            /\ listeners[x].suspended /\ TimesInvoked(x) = 0 /\ listeners[x].count = 0
            /\ ~listeners[y].suspended /\ TimesInvoked(y) = 1 /\ listeners[y].count = 1

(* C15 as stated: every emit() returns an array that holds exactly the values
   returned by the callbacks it called, in the order of the calls, and so an
   empty array when it called none.  An emit() made while eventsSuspended is
   true returns undefined instead. *)
C15_EmitReturnsResults ==
    last.op = "emit" =>
        /\ last.returned.isArray
        /\ last.returned.values =
               [i \in 1 .. Len(last.invoked) |->
                   ReturnValue(listeners[last.invoked[i]].callback)]

\* The callback of the listener id removes listeners when it runs.
Removes(id) == Behaviour(listeners[id].callback) \in {"removeOwn", "removeAll"}

(* C13: when a callback called by an emit() removes its own listener or other
   listeners, every listener that was registered for the event or for ANY_EVENT
   when the emit() started is still called by it, once. *)
C13_RemovalDuringEmit ==
    (AfterEmit /\ ~last.thrown /\ \E i \in 1 .. Len(last.invoked) : Removes(last.invoked[i])) =>
        \A id \in DOMAIN listeners :
            InSeq(id, last.order) => TimesInvoked(id) = 1

(* An emit() whose first callback removed every listener, or its own, and that
   went on to call a listener walked after it which is no longer registered. *)
C13_Witness ==
    /\ AfterEmit /\ ~last.thrown
    /\ Len(last.invoked) >= 2
    /\ Removes(last.invoked[1])
    /\ ~Registered(last.invoked[1])
    /\ \E i \in 2 .. Len(last.invoked) :
            /\ ~Registered(last.invoked[i])
            /\ listeners[last.invoked[i]].initial = Infinity
            /\ listeners[last.invoked[i]].count = 1

(* C16: when a callback throws, emit() ends with that exception and calls none
   of the listeners that come after the one that threw. *)
C16_ThrowPropagates ==
    last.op = "emit" =>
        \A i \in 1 .. Len(last.invoked) :
            Behaviour(listeners[last.invoked[i]].callback) = "throw" =>
                /\ last.thrown
                /\ ~last.returned.isArray
                /\ i = Len(last.invoked)

(* An emit() that a callback ended by throwing, after one listener was called
   and before another, registered and never called, was reached. *)
C16_Witness ==
    /\ last.op = "emit" /\ last.thrown
    /\ Len(last.invoked) >= 1
    /\ \E id \in DOMAIN listeners :
            /\ InSeq(id, last.order)
            /\ TimesInvoked(id) = 0
            /\ Registered(id)
            /\ listeners[id].count = 0

(* C14 as stated: when the timer of a listener fires after the listener was
   removed, nothing is removed from the emitter, and so not a listener
   registered later for the same event with the same callback.  The timer is
   never cancelled, and its remove() takes away the listeners that match. *)
C14_StaleTimerRemovesNothing ==
    [][\A id \in DOMAIN listeners :
            (listeners[id].timer = "pending" /\ listeners'[id].timer = "fired"
                    /\ ~Registered(id)) =>
                eventMap' = eventMap]_vars

----------------------------------------------------------------------------
(* WebMidi: properties *)

\* The positions of the log that hold the step named, for the port given.
At(name, port) == {i \in 1 .. Len(log) : log[i] = Step(name, port)}

\* Every step of the first kind comes before every step of the second.
Before(firsts, seconds) == \A i \in firsts, j \in seconds : i < j

\* The step is an enable() call being made.
EnableIsCalled ==
    /\ call.pc \in {"idle", "done"}
    /\ call'.op = "enable"
    /\ <<call, log, validation>>' # <<call, log, validation>>

(* C17 as stated: a call of enable() made while WebMidi is enabled executes the
   callback, if one is given, and resolves, without requesting MIDI access,
   without emitting anything and without changing the lists of inputs and
   outputs.  With validation on, which is the default, the call ends with a
   ReferenceError instead. *)
C17_EnableWhenEnabled ==
    [][(enabled /\ EnableIsCalled) =>
            /\ call'.outcome = "fulfilled"
            /\ log' = CallbackStep(call'.callback, "callback")
                          \o <<Step("fulfilled with undefined", 0)>>
            /\ UNCHANGED <<interface, inputs, outputs, eventMap, listeners, last>>]_vars

(* C18: in an enable() that requests MIDI access, 'midiaccessgranted' is
   emitted once, before open() is called on the object of each port reported;
   'enabled' is emitted once, after every one of those open() has completed;
   the callback, when one is given, is executed after 'enabled'; and the
   promise is fulfilled with the WebMidi object last. *)
C18_EnableOrder ==
    (call.op = "enable" /\ At("emit enabled", 0) # {}) =>
        /\ Cardinality(At("emit midiaccessgranted", 0)) = 1
        /\ Cardinality(At("emit enabled", 0)) = 1
        /\ Listed = reported
        /\ \A p \in reported :
                /\ Cardinality(At("open", p)) = 1
                /\ Cardinality(At("open done", p)) = 1
                /\ Before(At("emit midiaccessgranted", 0), At("open", p))
                /\ Before(At("open", p), At("open done", p))
                /\ Before(At("open done", p), At("emit enabled", 0))
        /\ Before(At("emit midiaccessgranted", 0), At("emit enabled", 0))
        /\ Cardinality(At("callback", 0)) = IF call.callback THEN 1 ELSE 0
        /\ Before(At("emit enabled", 0), At("callback", 0))
        /\ call.outcome = "fulfilled"
        /\ log[Len(log)] = Step("fulfilled with WebMidi", 0)
        /\ At("emit error", 0) = {}

\* An enable() with a callback that opened an input and an output and succeeded.
C18_Witness ==
    /\ call.op = "enable" /\ call.pc = "done" /\ call.outcome = "fulfilled"
    /\ call.callback
    /\ Len(inputs) >= 1 /\ Len(outputs) >= 1
    /\ At("emit enabled", 0) # {}
    /\ At("callback", 0) # {}
    /\ \A p \in reported : portStatus[p] = "open"

\* The enable() call has ended after MIDI access was refused or an open() failed.
EnableFailed ==
    /\ call.op = "enable" /\ call.pc = "done"
    /\ \E i \in 1 .. Len(log) : log[i].step \in {"access denied", "open failed"}

(* C19: when MIDI access is refused or the open() of a port fails, enable()
   emits 'error' exactly once, then executes the callback, when one is given,
   with the error, then rejects; it does not emit 'enabled'. *)
C19_EnableFailure ==
    EnableFailed =>
        /\ Cardinality(At("emit error", 0)) = 1
        /\ Cardinality(At("callback(err)", 0)) = IF call.callback THEN 1 ELSE 0
        /\ Before(At("emit error", 0), At("callback(err)", 0))
        /\ call.outcome = "rejected"
        /\ log[Len(log)] = Step("rejected", 0)
        /\ At("emit enabled", 0) = {}
        /\ At("callback", 0) = {}

(* An enable() with a callback that ended after the open() of a port failed,
   with a listener of 'enabled' registered and never executed. *)
C19_Witness ==
    /\ EnableFailed
    /\ call.callback
    /\ \E p \in Ports : At("open failed", p) # {}
    /\ \E id \in DOMAIN listeners :
            listeners[id].event = "enabled" /\ Registered(id) /\ listeners[id].count = 0

\* The promise of disable() has just resolved.
DisableResolved ==
    /\ call.op = "disable" /\ call.pc = "done" /\ call.outcome = "fulfilled"
    /\ last.op = "emit" /\ last.event = "disabled"

(* C20: when the promise of disable() resolves, destroy() has completed on
   every Input and Output that was in the lists, the lists are empty, enabled
   is false, 'disabled' has been emitted once and has executed once each
   listener registered for it, and WebMidi has no listener left. *)
C20_DisableComplete ==
    DisableResolved =>
        /\ \A p \in call.awaited :
                /\ portStatus[p] = "destroyed"
                /\ Before(At("destroyed", p), At("emit disabled", 0))
        /\ inputs = <<>> /\ outputs = <<>>
        /\ ~enabled
        /\ Cardinality(At("emit disabled", 0)) = 1
        /\ \A id \in DOMAIN listeners :
                InSeq(id, last.specific) => TimesInvoked(id) = 1
        /\ eventMap = <<>>

(* A disable() that resolved after destroying an input and an output and
   executing a listener of 'disabled', with a listener of 'enabled' removed. *)
C20_Witness ==
    /\ DisableResolved
    /\ Cardinality(call.awaited) >= 2
    /\ \E x, y \in DOMAIN listeners :
            /\ listeners[x].event = "disabled" /\ TimesInvoked(x) = 1
            /\ listeners[y].event = "enabled" /\ ~Registered(y)


----------------------------------------------------------------------------
(* EventEmitter: the registry *)

(* C26 as stated: eventNames lists, and eventCount counts, exactly the regular
   event names that have a listener; listeners registered under ANY_EVENT are
   neither listed nor counted. *)
C26_AnyEventNotCounted ==
    LET regular == {e \in EventNames : Len(getListeners(eventMap, e)) > 0}
    IN  /\ eventNames(eventMap) = regular
        /\ eventCount(eventMap) = Cardinality(regular)

(* C27 as stated: removeListener(event), with only the event given, removes
   every listener of that event and leaves the listeners of every other
   event, ANY_EVENT included, as they were. *)
C27_RemoveByEventOnly ==
    [][last'.op = "removeListener(event)"
          => /\ getListeners(eventMap', last'.event) = <<>>
             /\ \A k \in (EventNames \cup {ANY_EVENT}) \ {last'.event} :
                   getListeners(eventMap', k) = getListeners(eventMap, k)]_vars

----------------------------------------------------------------------------
(* EventEmitter: waitFor *)

RegisteredIn(map, id) == \E k \in DOMAIN map : InSeq(id, map[k])

\* The promise, the timeout and the listener of a waitFor call agree.
WaitSettledOnce(w, lst, map) ==
    /\ w.resolved + w.rejected <= 1
    /\ w.promise = "fulfilled" <=> w.resolved = 1
    /\ w.promise = "rejected" <=> w.rejected = 1
    /\ w.promise = "fulfilled" <=> lst[w.listener].count = 1
    /\ w.promise = "fulfilled" => w.timeout \in {"cleared", "none"}
    /\ w.promise = "rejected" <=> w.timeout = "fired"
    /\ w.promise # "pending" => ~RegisteredIn(map, w.listener)
    /\ lst[w.listener].count <= 1

(* C28: the promise of waitFor(event, {duration}) is settled once: an emit of
   the event made before the duration has elapsed fulfils it, the timeout
   rejects it otherwise; once it is settled its listener is not registered,
   and neither an emit nor a timer changes the promise, the listener's count
   or the registered listeners because of it. *)
C28_WaitForSettlesOnce ==
    [][\A k \in DOMAIN waits' :
          /\ WaitSettledOnce(waits'[k], listeners', eventMap')
          /\ k \in DOMAIN waits =>
                LET w == waits[k]
                    id == w.listener
                IN  /\ (/\ w.promise = "pending"
                        /\ listeners[id].timer # "fired"
                        /\ last'.op = "emit"
                        /\ listeners[id].event \in {last'.event, ANY_EVENT})
                          => waits'[k].promise = "fulfilled"
                    /\ (w.promise = "pending" /\ last'.op = "timeout"
                          /\ last'.order = <<id>>)
                          => waits'[k].promise = "rejected"
                    /\ w.promise # "pending"
                          => /\ waits'[k] = w
                             /\ listeners'[id].count = listeners[id].count
                             /\ (last'.op = "timer" /\ last'.order = <<id>>)
                                   => eventMap' = eventMap]_vars

\* A promise fulfilled by an emit, and a promise rejected by its timeout.
C28_Witness ==
    \E j, k \in DOMAIN waits :
        /\ waits[j].promise = "fulfilled"
        /\ listeners[waits[j].listener].timer = "fired"
        /\ waits[k].promise = "rejected"

----------------------------------------------------------------------------
(* InputChannel: notesState *)

(* What reading notesState of an InputChannel gives: the constructor creates
   no such property and no handler writes one. *)
notesState == [isArray |-> FALSE, values |-> <<>>]

(* C29: notesState is an array of 128 booleans that are all false while no
   note message has been handled, and after a noteon with a velocity above 0
   the entry of its note is true, after a noteoff or a noteon with velocity 0
   the entry of its note is false. *)
C29_NotesStateTracksNotes ==
    /\ notesState.isArray
    /\ Len(notesState.values) = 128
    /\ \A i \in 1 .. 128 : notesState.values[i] \in BOOLEAN
    /\ (phase = "idle" /\ emitted = <<>>) => \A i \in 1 .. 128 : ~notesState.values[i]
    /\ (Handled("noteon") /\ Data2 > 0) => notesState.values[Data1 + 1]
    /\ (Handled("noteoff") \/ (Handled("noteon") /\ Data2 = 0)) => ~notesState.values[Data1 + 1]

----------------------------------------------------------------------------
(* WebMidi: properties of the statechange events *)

\* The statechange handler has just run for a port in this state and connection.
StateChanged(state, connection) ==
    /\ call.op = "statechange"
    /\ log[1].step = state
    /\ log[2].step = connection

\* What the handler did after the two steps that keep the port's state.
StateChangeSteps == SubSeq(log, 3, Len(log))

(* C30: after a statechange of a connected port whose connection is open,
   'connected' and then 'portschanged' have been emitted; after one of a
   disconnected port whose connection is pending, 'disconnected' and then
   'portschanged'; after any other, nothing has been emitted. *)
C30_StateChangeEvents ==
    call.op = "statechange" =>
        LET port == log[1].port
        IN  StateChangeSteps =
                IF StateChanged("connected", "open")
                THEN <<Step("connected", port), Step("portschanged", port)>>
                ELSE IF StateChanged("disconnected", "pending")
                THEN <<Step("disconnected", port), Step("portschanged", port)>>
                ELSE <<>>

----------------------------------------------------------------------------
(* WebMidi: the objects of ports that come back *)

\* The port has an object in the list of inputs or in the list of outputs.
IsListed(ins, outs, port) == InSeq(port, ins) \/ InSeq(port, outs)

\* An object of the port was stashed when the port was no longer reported.
IsStashed(port) == InSeq(port, disconnectedInputs) \/ InSeq(port, disconnectedOutputs)

(* C31: a step that puts into the list of inputs or outputs a port whose
   object was stashed makes no new object for it, and the object listed has
   the octaveOffset it had before the step. *)
C31_StashedObjectReused ==
    [][\A p \in Ports :
          (~IsListed(inputs, outputs, p) /\ IsListed(inputs', outputs', p) /\ IsStashed(p))
              => /\ p \notin made'
                 /\ portOctaveOffset'[p] = portOctaveOffset[p]]_vars

(* An input whose octaveOffset was set, that went away and was stashed, has
   just been reported again: it is listed, being opened, with the octaveOffset
   set before. *)
C31_Witness ==
    /\ call.op = "statechange"
    /\ \E p \in InputPorts :
        /\ log[1] = Step("connected", p)
        /\ InSeq(p, inputs)
        /\ InSeq(p, disconnectedInputs)
        /\ portStatus[p] = "opening"
        /\ p \notin made
        /\ portOctaveOffset[p] # NewPortOctaveOffset

----------------------------------------------------------------------------
(* InputChannel: the 'midimessage' event *)

IsMidiMessage(ev) == ev.type = "midimessage"

(* C32: for a message handled, 'midimessage' has been emitted exactly once,
   and before every typed event of the message. *)
C32_MidiMessageOnceAndFirst ==
    phase = "handled" =>
        /\ Cardinality(Positions(IsMidiMessage)) = 1
        /\ \A i \in Positions(IsMidiMessage), j \in Positions(IsTyped) : i < j

\* A control change handled with several typed events after its 'midimessage'.
C32_Witness ==
    /\ Handled("controlchange")
    /\ Cardinality(Positions(IsMidiMessage)) = 1
    /\ Cardinality(Positions(IsTyped)) >= 2
    /\ \A j \in Positions(IsTyped) : 1 < j

----------------------------------------------------------------------------
(* EventEmitter: removeListener with criteria *)

\* The listener has every criterion that was given to removeListener.
MatchesCriteria(listener, callback, options) ==
    /\ callback # "undefined" => listener.callback = callback
    /\ options.context # "undefined" => listener.context = options.context
    /\ options.remaining # Undefined => listener.remaining = options.remaining

(* C33: removeListener(event, callback, {context, remaining}) leaves for the
   event the listeners that miss one of the criteria given, in the order they
   had, and leaves the listeners of every other key as they were. *)
C33_RemovesExactlyMatching ==
    [][last'.op = "removeListener(criteria)"
          => /\ getListeners(eventMap', last'.event) =
                    SelectSeq(getListeners(eventMap, last'.event),
                              LAMBDA id : ~MatchesCriteria(listeners[id], last'.callback,
                                                           last'.options))
             /\ \A k \in (EventNames \cup {ANY_EVENT}) \ {last'.event} :
                   getListeners(eventMap', k) = getListeners(eventMap, k)]_vars

----------------------------------------------------------------------------
(* EventEmitter: what the removal of one listener removes *)

(* C34 as stated: an emit() unregisters only the listeners that it brought to
   the end of their allowed executions: a listener that has executions left
   stays registered, also when it shares its event, callback and context with
   a listener that expires. *)
C34_RemovesOnlyThatListener ==
    [][last'.op = "emit"
          => \A id \in DOMAIN listeners :
                 (RegisteredIn(eventMap, id) /\ ~RegisteredIn(eventMap', id))
                     => listeners'[id].remaining < 1]_vars

----------------------------------------------------------------------------
(* EventEmitter: callbacks that call emit() *)

(* C35 as stated: a listener registered with a finite remaining = N has been
   executed at most N times, a one-time listener at most once, also when a
   callback calls emit() for the same event. *)
C35_AtMostNTimes ==
    \A id \in DOMAIN listeners :
        listeners[id].initial # Infinity => listeners[id].count <= listeners[id].initial

----------------------------------------------------------------------------
(* EventEmitter: the keys of eventMap *)

(* C36: every key of eventMap holds at least one listener, and for every
   event hasListener(event) is true exactly when getListenerCount(event) is
   above 0. *)
C36_NoEmptyKey ==
    /\ \A k \in DOMAIN eventMap : Len(eventMap[k]) > 0
    /\ \A event \in EventNames \cup {ANY_EVENT} :
           hasListener(eventMap, event) <=> getListenerCount(eventMap, event) > 0

(* An emit() has just executed the last listener of its event, which expired:
   the event is no longer a key, hasListener is false and the count is 0. *)
C36_Witness ==
    /\ last.op = "emit"
    /\ last.specific # <<>>
    /\ \A i \in 1 .. Len(last.specific) : InSeq(last.specific[i], last.invoked)
    /\ last.event \notin DOMAIN eventMap
    /\ ~hasListener(eventMap, last.event)
    /\ getListenerCount(eventMap, last.event) = 0

====
